---- MODULE Spec2Model ----
(***************************************************************************)
(* DesignRadar: the structural diff engine (src/src/differ.ts) over        *)
(* canonical (filtered) documents.                                         *)
(*                                                                         *)
(* JavaScript values are modelled as tagged records [t, v]:                *)
(*   t = "undefined" | "null" | "string" | "number" | "boolean"            *)
(*       | "array" | "object"                                              *)
(* An array's v is the sequence of its elements; an object's v is the      *)
(* sequence of its <<key, value>> pairs in insertion order (the order      *)
(* Object.keys and JSON.stringify follow).  A canonical node is an object  *)
(* value; a page and a file are the typed records of FilteredPage and      *)
(* FilteredFile.                                                           *)
(***************************************************************************)
EXTENDS Integers, Sequences, FiniteSets, TLC

VARIABLES draft, oldFile, newFile, changes, origin, edits, pc,
          rawNode, filteredNode, calls, report,
          remote, store, processing, runs, sent, webhook, poller

\* The state of the server and of what it talks to.
serverVars == <<remote, store, processing, runs, sent, webhook, poller>>

vars == <<draft, oldFile, newFile, changes, origin, edits, pc,
          rawNode, filteredNode, calls, report, serverVars>>

(* ------------------------------ bounds -------------------------------- *)

\* How many designer edits separate the stored snapshot from the new fetch.
MaxEdits == 2

\* Color channels are drawn in steps of 1 / ChannelSteps.
ChannelSteps == 10

(* ------------------------- JavaScript values --------------------------- *)

Undefined == [t |-> "undefined", v |-> "undefined"]
Null == [t |-> "null", v |-> "null"]
Str(s) == [t |-> "string", v |-> s]
Num(n) == [t |-> "number", v |-> n]
Bool(b) == [t |-> "boolean", v |-> b]
Arr(items) == [t |-> "array", v |-> items]
Obj(pairs) == [t |-> "object", v |-> pairs]

\* Object.keys(o), in insertion order.
Keys(o) == [i \in 1..Len(o.v) |-> o.v[i][1]]

\* key in o
HasKey(o, key) == \E i \in 1..Len(o.v) : o.v[i][1] = key

\* o[key]: the value, or undefined when the key is absent.
Prop(o, key) ==
    IF HasKey(o, key)
    THEN o.v[CHOOSE i \in 1..Len(o.v) : o.v[i][1] = key][2]
    ELSE Undefined

\* JavaScript truthiness, as `a || b`, `if (x)` and `!x` use it.
Truthy(val) ==
    CASE val.t = "undefined" -> FALSE
      [] val.t = "null" -> FALSE
      [] val.t = "string" -> val.v # ""
      [] val.t = "number" -> val.v # 0
      [] val.t = "boolean" -> val.v
      [] OTHER -> TRUE

\* a || b
OrElse(a, b) == IF Truthy(a) THEN a ELSE b

\* Strict equality of two primitives (===): same type and same value.
StrictEq(a, b) ==
    /\ a.t = b.t
    /\ a.t \in {"string", "number", "boolean"} => a = b

Digit(d) == CASE d = 0 -> "0" [] d = 1 -> "1" [] d = 2 -> "2" [] d = 3 -> "3"
              [] d = 4 -> "4" [] d = 5 -> "5" [] d = 6 -> "6" [] d = 7 -> "7"
              [] d = 8 -> "8" [] d = 9 -> "9"

RECURSIVE NatToString(_)
NatToString(n) ==
    IF n < 10 THEN Digit(n) ELSE NatToString(n \div 10) \o Digit(n % 10)

\* String(n) for an integer n.
IntToString(n) == IF n < 0 THEN "-" \o NatToString(0 - n) ELSE NatToString(n)

RECURSIVE Join(_, _)
\* parts.join(sep)
Join(parts, sep) ==
    IF Len(parts) = 0 THEN ""
    ELSE IF Len(parts) = 1 THEN parts[1]
    ELSE parts[1] \o sep \o Join(Tail(parts), sep)

RECURSIVE Stringify(_)
\* JSON.stringify(val) of a value that holds no undefined at its top.
Stringify(val) ==
    CASE val.t = "string" -> "\"" \o val.v \o "\""
      [] val.t = "number" -> IntToString(val.v)
      [] val.t = "boolean" -> (IF val.v THEN "true" ELSE "false")
      [] val.t = "array" ->
           "[" \o Join([i \in 1..Len(val.v) |->
                          IF val.v[i].t = "undefined" THEN "null"
                          ELSE Stringify(val.v[i])], ",") \o "]"
      [] val.t = "object" ->
           LET kept == SelectSeq(val.v, LAMBDA p : p[2].t # "undefined")
           IN "{" \o Join([i \in 1..Len(kept) |->
                            "\"" \o kept[i][1] \o "\":" \o Stringify(kept[i][2])],
                          ",") \o "}"
      [] OTHER -> "null"

RECURSIVE JsString(_)
\* String(val), the conversion a template literal and Array.join apply.
JsString(val) ==
    CASE val.t = "string" -> val.v
      [] val.t = "number" -> IntToString(val.v)
      [] val.t = "boolean" -> (IF val.v THEN "true" ELSE "false")
      [] val.t = "undefined" -> "undefined"
      [] val.t = "null" -> "null"
      [] val.t = "array" ->
           Join([i \in 1..Len(val.v) |->
                   IF val.v[i].t \in {"undefined", "null"} THEN ""
                   ELSE JsString(val.v[i])], ",")
      [] OTHER -> "[object Object]"

(* ------------------- deep-diff (imported, differ.ts:6) ----------------- *)

RECURSIVE deepDiffFinds(_, _, _, _)
\* Whether deep-diff's recursive walk records at least one difference between
\* lhs and rhs.  ldefined / rdefined: the value is not undefined, or it is an
\* own property of the enclosing object (deep-diff tells a missing key from a
\* key holding undefined).  Arrays are compared index by index, objects by
\* key set and value, primitives with !==.
deepDiffFinds(lhs, rhs, ldefined, rdefined) ==
    IF ~ldefined /\ rdefined THEN TRUE
    ELSE IF ~rdefined /\ ldefined THEN TRUE
    ELSE IF lhs.t # rhs.t THEN TRUE
    ELSE IF lhs.t = "array" THEN
        \/ Len(lhs.v) # Len(rhs.v)
        \/ \E i \in 1..Len(lhs.v) : deepDiffFinds(lhs.v[i], rhs.v[i], TRUE, TRUE)
    ELSE IF lhs.t = "object" THEN
        \/ \E i \in 1..Len(lhs.v) :
              LET k == lhs.v[i][1]
              IN IF HasKey(rhs, k)
                 THEN deepDiffFinds(lhs.v[i][2], Prop(rhs, k), TRUE, TRUE)
                 ELSE TRUE
        \/ \E j \in 1..Len(rhs.v) :
              LET k == rhs.v[j][1] IN k # "" /\ ~HasKey(lhs, k)
    ELSE ~StrictEq(lhs, rhs)

\* deepDiff(oldVal, newVal) returns a non-empty list of differences.
deepDiff(oldVal, newVal) ==
    deepDiffFinds(oldVal, newVal, oldVal.t # "undefined", newVal.t # "undefined")

(* ------------------------------ Map ----------------------------------- *)
\* A JavaScript Map: a sequence of [key, val] entries in insertion order;
\* set() on a key already present keeps its place and replaces its value.

MapHas(map, key) == \E i \in 1..Len(map) : StrictEq(map[i].key, key)

MapGet(map, key) ==
    map[CHOOSE i \in 1..Len(map) : StrictEq(map[i].key, key)].val

MapSet(map, key, val) ==
    IF MapHas(map, key)
    THEN [i \in 1..Len(map) |->
            IF StrictEq(map[i].key, key) THEN [key |-> key, val |-> val]
            ELSE map[i]]
    ELSE Append(map, [key |-> key, val |-> val])

RECURSIVE MapSetAll(_, _)
\* for (const [id, entry] of other) map.set(id, entry)
MapSetAll(map, other) ==
    IF Len(other) = 0 THEN map
    ELSE MapSetAll(MapSet(map, other[1].key, other[1].val), Tail(other))

RECURSIVE Flatten(_)
\* The concatenation of a sequence of sequences (changes.push(...xs) in a loop).
Flatten(seqs) ==
    IF Len(seqs) = 0 THEN <<>> ELSE Head(seqs) \o Flatten(Tail(seqs))

(* ------------------------- differ.ts: the Differ ----------------------- *)

\* node.name || node.id, as the template literal renders it.
nodeLabel(node) == JsString(OrElse(Prop(node, "name"), Prop(node, "id")))

\* currentPath of buildNodeMap.
childPath(parentPath, node) ==
    IF parentPath # "" THEN parentPath \o " / " \o nodeLabel(node)
    ELSE nodeLabel(node)

RECURSIVE buildNodeMapFrom_NoRecursion(_, _, _)
\* Mutant: the children of a node are not walked.
buildNodeMapFrom_NoRecursion(nodes, parentPath, map) ==
    IF Len(nodes) = 0 THEN map
    ELSE buildNodeMapFrom_NoRecursion(Tail(nodes), parentPath,
             MapSet(map, Prop(Head(nodes), "id"),
                    [node |-> Head(nodes),
                     path |-> childPath(parentPath, Head(nodes))]))

RECURSIVE buildNodeMapFrom(_, _, _)
\* The loop of buildNodeMap over `nodes`, continuing from `map`: each node is
\* set under its id with its display path, then the entries of its children's
\* map are set over it (a later entry with the same id replaces an earlier one).
buildNodeMapFrom(nodes, parentPath, map) ==
    IF Len(nodes) = 0 THEN map
    ELSE
        LET node == Head(nodes)
            currentPath == childPath(parentPath, node)
            own == MapSet(map, Prop(node, "id"),
                          [node |-> node, path |-> currentPath])
            kids == Prop(node, "children")
            withKids == IF Truthy(kids) /\ kids.t = "array"
                        THEN MapSetAll(own,
                                 buildNodeMapFrom(kids.v, currentPath, <<>>))
                        ELSE own
        IN buildNodeMapFrom(Tail(nodes), parentPath, withKids)

\* buildNodeMap(nodes, parentPath = ''): id -> {node, path}.
buildNodeMap(nodes, parentPath) == buildNodeMapFrom(nodes, parentPath, <<>>)

\* Mutant: every value but null and undefined is shown as its JSON text.
formatValue_Serialized(val) ==
    IF val.t \in {"null", "undefined"} THEN "none" ELSE Stringify(val)

\* formatValue(val): a value rendered for a summary.
formatValue(val) ==
    IF val.t \in {"null", "undefined"} THEN "none"
    ELSE IF val.t = "string" THEN val.v
    ELSE IF val.t \in {"number", "boolean"} THEN JsString(val)
    ELSE IF val.t = "array" THEN
        IF /\ Len(val.v) > 0
           /\ val.v[1].t = "object"
           /\ Truthy(Prop(val.v[1], "color"))
        THEN Join([i \in 1..Len(val.v) |->
                     LET c == IF val.v[i].t = "object"
                              THEN Prop(val.v[i], "color") ELSE Undefined
                     IN IF c.t \in {"undefined", "null"} THEN "" ELSE JsString(c)],
                  ", ")
        ELSE Stringify(val)
    ELSE IF HasKey(val, "w") /\ HasKey(val, "h")
         THEN JsString(Prop(val, "w")) \o "×" \o JsString(Prop(val, "h"))
              \o " at (" \o JsString(Prop(val, "x")) \o ","
              \o JsString(Prop(val, "y")) \o ")"
         ELSE Stringify(val)

RECURSIVE AddKeys(_, _)
\* new Set([...]): the keys of `more` added to `keys`, each once, in order.
AddKeys(keys, more) ==
    IF Len(more) = 0 THEN keys
    ELSE AddKeys(IF \E i \in 1..Len(keys) : keys[i] = Head(more)
                 THEN keys ELSE Append(keys, Head(more)),
                 Tail(more))

\* Mutant: `children` is compared like any other property.
allKeys_WithChildren(oldNode, newNode) ==
    AddKeys(AddKeys(<<>>, Keys(oldNode)), Keys(newNode))

\* allKeys of compareNodes: the keys of both nodes except "children".
allKeys(oldNode, newNode) ==
    AddKeys(AddKeys(<<>>, SelectSeq(Keys(oldNode), LAMBDA k : k # "children")),
            SelectSeq(Keys(newNode), LAMBDA k : k # "children"))

\* Mutant: the summary names the new name first.
renameRecord_Swapped(oldVal, newVal, path, pageName) ==
    [kind |-> "MODIFIED", page |-> pageName, path |-> path,
     property |-> "name", oldValue |-> oldVal, newValue |-> newVal,
     summary |-> "Renamed: \"" \o JsString(newVal) \o "\" → \""
                 \o JsString(oldVal) \o "\""]

\* The record compareNodes pushes for a changed name.
renameRecord(oldVal, newVal, path, pageName) ==
    [kind |-> "MODIFIED", page |-> pageName, path |-> path,
     property |-> "name", oldValue |-> oldVal, newValue |-> newVal,
     summary |-> "Renamed: \"" \o JsString(oldVal) \o "\" → \""
                 \o JsString(newVal) \o "\""]

\* Mutant: the (absent) old value formatted in place of the new one.
addedPropertyRecord_OldValue(key, newVal, path, pageName) ==
    [kind |-> "ADDED", page |-> pageName, path |-> path,
     property |-> key, newValue |-> newVal,
     summary |-> key \o " added: " \o formatValue(Undefined)]

\* The record compareNodes pushes for a property only the new node has.
addedPropertyRecord(key, newVal, path, pageName) ==
    [kind |-> "ADDED", page |-> pageName, path |-> path,
     property |-> key, newValue |-> newVal,
     summary |-> key \o " added: " \o formatValue(newVal)]

\* The record compareNodes pushes for a property only the old node has.
removedPropertyRecord(key, oldVal, path, pageName) ==
    [kind |-> "REMOVED", page |-> pageName, path |-> path,
     property |-> key, oldValue |-> oldVal,
     summary |-> key \o " removed (was: " \o formatValue(oldVal) \o ")"]

\* The record compareNodes pushes for a property whose value changed.
modifiedPropertyRecord(key, oldVal, newVal, path, pageName) ==
    [kind |-> "MODIFIED", page |-> pageName, path |-> path,
     property |-> key, oldValue |-> oldVal, newValue |-> newVal,
     summary |-> key \o ": " \o formatValue(oldVal) \o " → "
                 \o formatValue(newVal)]

\* Mutant: oldVal !== newVal in place of the deep comparison; two separately
\* built objects or arrays (the parsed snapshot, the fresh document) differ.
propertyChanged_ByReference(oldVal, newVal) ==
    IF oldVal.t \in {"array", "object"} THEN TRUE ELSE ~StrictEq(oldVal, newVal)

\* Mutant: the serialized texts compared in place of the deep comparison.
propertyChanged_ByJson(oldVal, newVal) ==
    Stringify(oldVal) # Stringify(newVal)

\* diffs && diffs.length > 0
propertyChanged(oldVal, newVal) == deepDiff(oldVal, newVal)

\* The body of compareNodes' loop for one key: the records it pushes.
compareKey(oldNode, newNode, path, pageName, key) ==
    LET oldVal == Prop(oldNode, key)
        newVal == Prop(newNode, key)
    IN IF key = "id" THEN <<>>
       ELSE IF key = "name" /\ ~StrictEq(oldVal, newVal)
            THEN << renameRecord(oldVal, newVal, path, pageName) >>
       ELSE IF key = "name" THEN <<>>
       ELSE IF oldVal.t = "undefined" /\ newVal.t # "undefined"
            THEN << addedPropertyRecord(key, newVal, path, pageName) >>
       ELSE IF oldVal.t # "undefined" /\ newVal.t = "undefined"
            THEN << removedPropertyRecord(key, oldVal, path, pageName) >>
       ELSE IF propertyChanged(oldVal, newVal)
            THEN << modifiedPropertyRecord(key, oldVal, newVal, path, pageName) >>
       ELSE <<>>

\* compareNodes(oldNode, newNode, path, pageName): the property records of one
\* node present on both sides, in the order of allKeys.
compareNodes(oldNode, newNode, path, pageName) ==
    LET keys == allKeys(oldNode, newNode)
    IN Flatten([i \in 1..Len(keys) |->
                  compareKey(oldNode, newNode, path, pageName, keys[i])])

\* The record diffPage pushes for a node only the old map has.
removedNodeRecord(id, oldEntry, pageName) ==
    [kind |-> "REMOVED", page |-> pageName, path |-> oldEntry.path,
     property |-> "node", oldValue |-> Prop(oldEntry.node, "type"),
     summary |-> "\"" \o JsString(OrElse(Prop(oldEntry.node, "name"), id))
                 \o "\" (" \o JsString(Prop(oldEntry.node, "type"))
                 \o ") removed"]

\* The record diffPage pushes for a node only the new map has.
addedNodeRecord(id, newEntry, pageName) ==
    [kind |-> "ADDED", page |-> pageName, path |-> newEntry.path,
     property |-> "node", newValue |-> Prop(newEntry.node, "type"),
     summary |-> "\"" \o JsString(OrElse(Prop(newEntry.node, "name"), id))
                 \o "\" (" \o JsString(Prop(newEntry.node, "type"))
                 \o ") added"]

\* Records together with the node they were emitted for (the id of the node
\* object at hand; "" for a page record): bookkeeping of the model, not a field
\* of the record.
Emitted(recs, node) ==
    [i \in 1..Len(recs) |-> [change |-> recs[i],
                             nodeId |-> JsString(Prop(node, "id"))]]

\* Mutant: the i-th old entry is compared with the i-th new entry.
diffPageOld_ByPosition(oldMap, newMap, pageName) ==
    Flatten([i \in 1..Len(oldMap) |->
        IF i > Len(newMap)
        THEN Emitted(<< removedNodeRecord(oldMap[i].key, oldMap[i].val, pageName) >>,
                     oldMap[i].val.node)
        ELSE Emitted(compareNodes(oldMap[i].val.node, newMap[i].val.node,
                                  newMap[i].val.path, pageName),
                     oldMap[i].val.node)])

\* Mutant: the property records carry the old side's display path.
diffPageOld_OldPath(oldMap, newMap, pageName) ==
    Flatten([i \in 1..Len(oldMap) |->
        IF ~MapHas(newMap, oldMap[i].key)
        THEN Emitted(<< removedNodeRecord(oldMap[i].key, oldMap[i].val, pageName) >>,
                     oldMap[i].val.node)
        ELSE Emitted(compareNodes(oldMap[i].val.node,
                                  MapGet(newMap, oldMap[i].key).node,
                                  oldMap[i].val.path, pageName),
                     oldMap[i].val.node)])

\* diffPage, first loop: removed nodes and the property records of nodes on
\* both sides, in the old map's order.
diffPageOld(oldMap, newMap, pageName) ==
    Flatten([i \in 1..Len(oldMap) |->
        LET id == oldMap[i].key
            oldEntry == oldMap[i].val
        IN IF ~MapHas(newMap, id)
           THEN Emitted(<< removedNodeRecord(id, oldEntry, pageName) >>,
                        oldEntry.node)
           ELSE Emitted(compareNodes(oldEntry.node, MapGet(newMap, id).node,
                                     MapGet(newMap, id).path, pageName),
                        oldEntry.node)])

\* Mutant: the old map is asked for the new entry's path, not its id.
diffPageNew_KeyedByPath(oldMap, newMap, pageName) ==
    Flatten([i \in 1..Len(newMap) |->
        IF ~MapHas(oldMap, Str(newMap[i].val.path))
        THEN Emitted(<< addedNodeRecord(newMap[i].key, newMap[i].val, pageName) >>,
                     newMap[i].val.node)
        ELSE <<>>])

\* diffPage, second loop: added nodes, in the new map's order.
diffPageNew(oldMap, newMap, pageName) ==
    Flatten([i \in 1..Len(newMap) |->
        LET id == newMap[i].key
            newEntry == newMap[i].val
        IN IF ~MapHas(oldMap, id)
           THEN Emitted(<< addedNodeRecord(id, newEntry, pageName) >>,
                        newEntry.node)
           ELSE <<>>])

\* Mutant: the records of a page carry the old document's page name.
diffPage_OldPageName(oldPage, newPage) ==
    LET pageName == oldPage.name
    IN diffPageOld(buildNodeMap(oldPage.children, ""),
                   buildNodeMap(newPage.children, ""), pageName)
       \o diffPageNew(buildNodeMap(oldPage.children, ""),
                      buildNodeMap(newPage.children, ""), pageName)

\* diffPage(oldPage, newPage)
diffPage(oldPage, newPage) ==
    LET pageName == IF newPage.name # "" THEN newPage.name ELSE oldPage.name
    IN diffPageOld(buildNodeMap(oldPage.children, ""),
                   buildNodeMap(newPage.children, ""), pageName)
       \o diffPageNew(buildNodeMap(oldPage.children, ""),
                      buildNodeMap(newPage.children, ""), pageName)

RECURSIVE pageMapFrom(_, _)
\* new Map(pages.map(p => [p.id, p]))
pageMapFrom(pages, map) ==
    IF Len(pages) = 0 THEN map
    ELSE pageMapFrom(Tail(pages), MapSet(map, Str(Head(pages).id), Head(pages)))

pageMap(file) == pageMapFrom(file.pages, <<>>)

\* The record diffSnapshots pushes for a page only the new file has.
pageAddedRecord(newPage) ==
    [kind |-> "ADDED", page |-> newPage.name, path |-> newPage.name,
     property |-> "page",
     summary |-> "New page added: \"" \o newPage.name \o "\""]

\* The record diffSnapshots pushes for a page only the old file has.
pageRemovedRecord(oldPage) ==
    [kind |-> "REMOVED", page |-> oldPage.name, path |-> oldPage.name,
     property |-> "page",
     summary |-> "Page removed: \"" \o oldPage.name \o "\""]

\* A page's records together with the page id they were emitted for
\* (bookkeeping of the model).
EmittedForPage(recs, pageId) ==
    [i \in 1..Len(recs) |-> [change |-> recs[i].change, nodeId |-> recs[i].nodeId,
                             pageId |-> pageId]]

\* A page record, emitted for no node.
EmittedPageRecord(rec, pageId) ==
    << [change |-> rec, nodeId |-> "", pageId |-> pageId] >>

\* Mutant: an added page is also diffed against an empty page, so each of its
\* nodes is reported as added.
diffNewPages_Recursing(oldPages, newPages) ==
    Flatten([i \in 1..Len(newPages) |->
        IF MapHas(oldPages, newPages[i].key)
        THEN EmittedForPage(diffPage(MapGet(oldPages, newPages[i].key),
                                     newPages[i].val), newPages[i].key.v)
        ELSE EmittedPageRecord(pageAddedRecord(newPages[i].val), newPages[i].key.v)
             \o EmittedForPage(diffPage([id |-> newPages[i].key.v, name |-> "",
                                         children |-> <<>>], newPages[i].val),
                               newPages[i].key.v)])

\* diffSnapshots, first loop: the pages of the new file.
diffNewPages(oldPages, newPages) ==
    Flatten([i \in 1..Len(newPages) |->
        LET pageId == newPages[i].key
            newPage == newPages[i].val
        IN IF MapHas(oldPages, pageId)
           THEN EmittedForPage(diffPage(MapGet(oldPages, pageId), newPage),
                               pageId.v)
           ELSE EmittedPageRecord(pageAddedRecord(newPage), pageId.v)])

\* diffSnapshots, second loop: the pages only the old file has.
diffOldPages(oldPages, newPages) ==
    Flatten([i \in 1..Len(oldPages) |->
        LET pageId == oldPages[i].key
            oldPage == oldPages[i].val
        IN IF ~MapHas(newPages, pageId)
           THEN EmittedPageRecord(pageRemovedRecord(oldPage), pageId.v)
           ELSE <<>>])

\* Mutant: the removed pages are reported first.
diffEmitted_RemovedPagesFirst(old, new) ==
    diffOldPages(pageMap(old), pageMap(new))
    \o diffNewPages(pageMap(old), pageMap(new))

\* diffSnapshots(oldFile, newFile), each record with the node and page it was
\* emitted for.
diffEmitted(old, new) ==
    diffNewPages(pageMap(old), pageMap(new))
    \o diffOldPages(pageMap(old), pageMap(new))

\* The change records of a list of emitted records.
ChangesOf(e) == [i \in 1..Len(e) |-> e[i].change]

\* For each emitted record, the node id and page id it is about.
OriginOf(e) == [i \in 1..Len(e) |-> [nodeId |-> e[i].nodeId, pageId |-> e[i].pageId]]

\* Mutant: the list of changes is kept between calls and never reset.
diffSnapshots_Accumulating(old, new) ==
    changes \o ChangesOf(diffEmitted(old, new))

\* diffSnapshots(oldFile, newFile): the list of change records returned.
diffSnapshots(old, new) == ChangesOf(diffEmitted(old, new))

(* --------------------------- formatChangesForLLM ----------------------- *)

RECURSIVE groupByPage(_, _)
\* The first loop of formatChangesForLLM: byPage, a Map from the page name to
\* the changes of that page.
groupByPage(cs, byPage) ==
    IF Len(cs) = 0 THEN byPage
    ELSE LET c == Head(cs)
             existing == IF MapHas(byPage, Str(c.page))
                         THEN MapGet(byPage, Str(c.page)) ELSE <<>>
         IN groupByPage(Tail(cs), MapSet(byPage, Str(c.page), Append(existing, c)))

\* Mutant: '+' for every record that is not REMOVED.
icon_AddedOrModified(c) == IF c.kind = "REMOVED" THEN "-" ELSE "+"

\* c.kind === 'ADDED' ? '+' : c.kind === 'REMOVED' ? '-' : '~'
icon(c) ==
    IF c.kind = "ADDED" THEN "+" ELSE IF c.kind = "REMOVED" THEN "-" ELSE "~"

\* The line pushed for one change.
changeLine(c) == "  " \o icon(c) \o " " \o c.path \o ": " \o c.summary

\* The lines pushed for one entry of byPage: the header and the changes.
pageLines(entry) ==
    << "[" \o entry.key.v \o "]" >>
    \o [i \in 1..Len(entry.val) |-> changeLine(entry.val[i])]

\* `lines` at the end of formatChangesForLLM.
formatLines(cs) ==
    LET byPage == groupByPage(cs, <<>>)
    IN Flatten([i \in 1..Len(byPage) |-> pageLines(byPage[i])])

\* formatChangesForLLM(changes)
formatChangesForLLM(cs) ==
    IF Len(cs) = 0 THEN "No changes detected."
    ELSE Join(formatLines(cs), "\n")

(* ------------------ documents and the designer's edits ---------------- *)

\* o[key] = val
SetKey(o, key, val) ==
    IF HasKey(o, key)
    THEN Obj([i \in 1..Len(o.v) |->
                IF o.v[i][1] = key THEN <<key, val>> ELSE o.v[i]])
    ELSE Obj(Append(o.v, <<key, val>>))

\* delete o[key]
DeleteKey(o, key) == Obj(SelectSeq(o.v, LAMBDA p : p[1] # key))

IdOf(node) == Prop(node, "id").v

ChildrenOf(node) ==
    LET c == Prop(node, "children") IN IF c.t = "array" THEN c.v ELSE <<>>

\* The node with its children list replaced; a node left without children
\* has no `children` key, as filterNode produces it (webhook.ts:171-173).
WithChildren(node, kids) ==
    IF Len(kids) = 0 THEN DeleteKey(node, "children")
    ELSE SetKey(node, "children", Arr(kids))

RECURSIVE FlatNodes(_)
\* Every node of a forest, depth first.
FlatNodes(nodes) ==
    IF Len(nodes) = 0 THEN <<>>
    ELSE <<Head(nodes)>> \o FlatNodes(ChildrenOf(Head(nodes)))
         \o FlatNodes(Tail(nodes))

NodeIds(nodes) == {IdOf(FlatNodes(nodes)[i]) : i \in 1..Len(FlatNodes(nodes))}

FindNode(nodes, id) ==
    LET flat == FlatNodes(nodes)
    IN flat[CHOOSE i \in 1..Len(flat) : IdOf(flat[i]) = id]

FileNodeIds(file) ==
    UNION {NodeIds(file.pages[p].children) : p \in 1..Len(file.pages)}

RECURSIVE ReplaceNode(_, _, _)
\* The forest with the node `id` replaced by the nodes of `repl`.
ReplaceNode(nodes, id, repl) ==
    IF Len(nodes) = 0 THEN <<>>
    ELSE (IF IdOf(Head(nodes)) = id THEN repl
          ELSE IF Len(ChildrenOf(Head(nodes))) = 0 THEN << Head(nodes) >>
          ELSE << WithChildren(Head(nodes),
                               ReplaceNode(ChildrenOf(Head(nodes)), id, repl)) >>)
         \o ReplaceNode(Tail(nodes), id, repl)

InsertAt(seq, pos, x) ==
    SubSeq(seq, 1, pos - 1) \o <<x>> \o SubSeq(seq, pos, Len(seq))

RemoveAt(seq, pos) == SubSeq(seq, 1, pos - 1) \o SubSeq(seq, pos + 1, Len(seq))

\* The file with the children of page p replaced.
WithPageChildren(file, p, kids) ==
    [file EXCEPT !.pages[p].children = kids]

\* The sibling list a node lives in: the children of `parent`, or the page's
\* top-level nodes when parent = "".
Siblings(nodes, parent) ==
    IF parent = "" THEN nodes ELSE ChildrenOf(FindNode(nodes, parent))

\* The forest with the sibling list of `parent` replaced.
WithSiblings(nodes, parent, kids) ==
    IF parent = "" THEN kids
    ELSE ReplaceNode(nodes, parent,
                     << WithChildren(FindNode(nodes, parent), kids) >>)

\* The stored snapshot: the canonical form of a small two-page design file.
BaseFile ==
    [name |-> "Landing", version |-> "1", lastModified |-> "2024-01-01",
     pages |-> <<
       [id |-> "0:1", name |-> "Home", children |-> <<
          Obj(<< <<"id", Str("1:1")>>, <<"name", Str("Header")>>,
                 <<"type", Str("FRAME")>>,
                 <<"bounds", Obj(<< <<"x", Num(0)>>, <<"y", Num(0)>>,
                                    <<"w", Num(1440)>>, <<"h", Num(80)>> >>)>>,
                 <<"children", Arr(<<
                    Obj(<< <<"id", Str("1:2")>>, <<"name", Str("Login Button")>>,
                           <<"type", Str("FRAME")>>,
                           <<"fills", Arr(<< Obj(<< <<"type", Str("SOLID")>>,
                                                    <<"color", Str("#3366E6")>> >>) >>)>> >>),
                    Obj(<< <<"id", Str("1:3")>>, <<"name", Str("Hero Title")>>,
                           <<"type", Str("TEXT")>>,
                           <<"characters", Str("Welcome")>>,
                           <<"fontSize", Num(16)>> >>) >>)>> >>) >>],
       [id |-> "0:2", name |-> "About", children |-> <<
          Obj(<< <<"id", Str("2:1")>>, <<"type", Str("RECTANGLE")>> >>) >>] >>]

\* Property assignments a designer's edit can result in:
\* <<key, value, the ids of the nodes it is made on>>.
PropEdits ==
    << <<"name", Str("Sign In Button"), {"1:2", "2:1"}>>,
       <<"name", Str(""), {"1:1", "1:3"}>>,
       <<"fills", Arr(<< Obj(<< <<"type", Str("SOLID")>>,
                                <<"color", Str("#FF0000")>> >>) >>),
                  {"1:2", "2:1"}>>,
       <<"fills", Arr(<< Obj(<< <<"color", Str("#3366E6")>>,
                                <<"type", Str("SOLID")>> >>) >>),
                  {"1:2"}>>,
       <<"bounds", Obj(<< <<"x", Num(0)>>, <<"y", Num(0)>>,
                          <<"w", Num(1200)>>, <<"h", Num(100)>> >>),
                   {"1:1", "1:3"}>> >>

\* Nodes a designer can add.
NewNodes ==
    << Obj(<< <<"id", Str("9:9")>>, <<"name", Str("New Badge")>>,
              <<"type", Str("FRAME")>>,
              <<"fills", Arr(<< Obj(<< <<"type", Str("SOLID")>>,
                                       <<"color", Str("#00FF00")>> >>) >>)>> >>) >>

\* Pages a designer can add.
NewPages == << [id |-> "0:99", name |-> "Settings Page", children |-> <<>>] >>

PageNames == {"Start", ""}

(* --------------------- webhook.ts: the Normalizer ---------------------- *)
\* A raw number that is no integer is the value Frac(n, d) = n/d (d > 0); an
\* integer is Num(n).

Frac(n, d) == [t |-> "number", v |-> n, den |-> d]

\* The denominator and the numerator of a number.
Den(val) == IF "den" \in DOMAIN val THEN val.den ELSE 1

\* Math.round(val * factor): the nearest integer, a half rounded up.
\* Mutant: the product is rounded down.
MathRound_Floor(val, factor) == Num((val.v * factor) \div Den(val))

MathRound(val, factor) ==
    Num((2 * val.v * factor + Den(val)) \div (2 * Den(val)))

\* Mutant: the digit as toString(16) renders it, without toUpperCase().
HexDigit_Lower(d) ==
    CASE d < 10 -> Digit(d)
      [] d = 10 -> "a" [] d = 11 -> "b" [] d = 12 -> "c"
      [] d = 13 -> "d" [] d = 14 -> "e" [] d = 15 -> "f"

\* One digit of n.toString(16), as toUpperCase() leaves it.
HexDigit(d) ==
    CASE d < 10 -> Digit(d)
      [] d = 10 -> "A" [] d = 11 -> "B" [] d = 12 -> "C"
      [] d = 13 -> "D" [] d = 14 -> "E" [] d = 15 -> "F"

RECURSIVE HexString(_)
\* n.toString(16) for n >= 0.
HexString(n) ==
    IF n < 16 THEN HexDigit(n) ELSE HexString(n \div 16) \o HexDigit(n % 16)

\* n.toString(16).padStart(2, '0'): a negative number renders with a minus
\* sign, a number above 255 with three digits or more; only a single digit
\* is padded.
HexPadded(n) ==
    IF n < 0 THEN "-" \o HexString(0 - n)
    ELSE IF n < 16 THEN "0" \o HexString(n)
    ELSE HexString(n)

\* Mutant: blendMode is kept too.
KEEP_PROPERTIES_BlendMode ==
    << "id", "name", "type", "visible", "opacity", "blendMode",
       "fills", "strokes", "strokeWeight", "cornerRadius",
       "backgroundColor",
       "characters", "fontSize", "fontFamily", "fontWeight",
       "textAlignHorizontal", "lineHeightPx", "letterSpacing",
       "absoluteBoundingBox",
       "layoutMode", "primaryAxisAlignItems", "counterAxisAlignItems",
       "itemSpacing", "paddingLeft", "paddingRight", "paddingTop",
       "paddingBottom",
       "componentId",
       "children" >>

\* KEEP_PROPERTIES, in the order the Set iterates.
KEEP_PROPERTIES ==
    << "id", "name", "type", "visible", "opacity",
       "fills", "strokes", "strokeWeight", "cornerRadius",
       "backgroundColor",
       "characters", "fontSize", "fontFamily", "fontWeight",
       "textAlignHorizontal", "lineHeightPx", "letterSpacing",
       "absoluteBoundingBox",
       "layoutMode", "primaryAxisAlignItems", "counterAxisAlignItems",
       "itemSpacing", "paddingLeft", "paddingRight", "paddingTop",
       "paddingBottom",
       "componentId",
       "children" >>

\* rgbaToHex(color)
rgbaToHex(color) ==
    Str("#" \o HexPadded(MathRound(Prop(color, "r"), 255).v)
            \o HexPadded(MathRound(Prop(color, "g"), 255).v)
            \o HexPadded(MathRound(Prop(color, "b"), 255).v))

\* The object a gradient stop is mapped to.
simplifyStop(s) ==
    Obj(<< <<"color", rgbaToHex(Prop(s, "color"))>>,
           <<"pos", Prop(s, "position")>> >>)

\* Whether simplifyFills reads the gradient stops of an entry of this type.
hasStops(type) == type = Str("GRADIENT_LINEAR") \/ type = Str("GRADIENT_RADIAL")

\* The object simplifyFills maps one fill to.
simplifyFill(f) ==
    LET withType == Obj(<< <<"type", Prop(f, "type")>> >>)
        withColor == IF Truthy(Prop(f, "color"))
                     THEN SetKey(withType, "color", rgbaToHex(Prop(f, "color")))
                     ELSE withType
        withOpacity == IF Prop(f, "opacity") # Undefined
                          /\ Prop(f, "opacity") # Num(1)
                       THEN SetKey(withColor, "opacity", Prop(f, "opacity"))
                       ELSE withColor
        withStops == IF hasStops(Prop(f, "type"))
                        /\ Truthy(Prop(f, "gradientStops"))
                     THEN SetKey(withOpacity, "stops",
                              Arr([i \in 1..Len(Prop(f, "gradientStops").v) |->
                                     simplifyStop(Prop(f, "gradientStops").v[i])]))
                     ELSE withOpacity
    IN IF Prop(f, "type") = Str("IMAGE")
       THEN SetKey(SetKey(withStops, "imageRef", Prop(f, "imageRef")),
                   "scaleMode", Prop(f, "scaleMode"))
       ELSE withStops

\* Mutant: only an entry whose `visible` is truthy is kept.
fillShown_Truthy(f) == Truthy(Prop(f, "visible"))

\* Whether the filter of simplifyFills keeps the entry: f.visible !== false.
fillShown(f) == Prop(f, "visible") # Bool(FALSE)

\* simplifyFills(fills): undefined for no list or an empty one.
simplifyFills(fills) ==
    IF ~Truthy(fills) \/ Len(fills.v) = 0 THEN Undefined
    ELSE LET shown == SelectSeq(fills.v, fillShown)
         IN Arr([i \in 1..Len(shown) |-> simplifyFill(shown[i])])

\* simplifyBoundingBox(bb)
simplifyBoundingBox(bb) ==
    Obj(<< <<"x", MathRound(Prop(bb, "x"), 1)>>,
           <<"y", MathRound(Prop(bb, "y"), 1)>>,
           <<"w", MathRound(Prop(bb, "width"), 1)>>,
           <<"h", MathRound(Prop(bb, "height"), 1)>> >>)

\* Mutant: a zero padding is kept.
ZeroSkipped_NoPadding == {"strokeWeight", "cornerRadius", "itemSpacing"}

\* The keys whose value 0 filterNode skips.
ZeroSkipped ==
    {"strokeWeight", "cornerRadius", "itemSpacing",
     "paddingLeft", "paddingRight", "paddingTop", "paddingBottom"}

\* One pass of the loop of filterNode: `filtered` after the key is handled.
filterKey(filtered, node, key) ==
    LET val == Prop(node, key)
    IN IF key = "children" THEN filtered
       ELSE IF ~HasKey(node, key) THEN filtered
       ELSE IF key = "visible" /\ val = Bool(TRUE) THEN filtered
       ELSE IF key = "opacity" /\ val = Num(1) THEN filtered
       ELSE IF key \in {"fills", "strokes"} THEN
           LET simplified == simplifyFills(val)
           IN IF Truthy(simplified) /\ Len(simplified.v) > 0
              THEN SetKey(filtered, key, simplified)
              ELSE filtered
       ELSE IF key = "backgroundColor" /\ Truthy(val)
            THEN SetKey(filtered, "backgroundColor", rgbaToHex(val))
       ELSE IF key = "absoluteBoundingBox" /\ Truthy(val)
            THEN SetKey(filtered, "bounds", simplifyBoundingBox(val))
       ELSE IF key \in ZeroSkipped /\ val = Num(0) THEN filtered
       ELSE IF key = "layoutMode" /\ val = Str("NONE") THEN filtered
       ELSE SetKey(filtered, key, val)

RECURSIVE filterKeys(_, _, _)
\* The loop of filterNode over the keys from position k on.
filterKeys(filtered, node, k) ==
    IF k > Len(KEEP_PROPERTIES) THEN filtered
    ELSE filterKeys(filterKey(filtered, node, KEEP_PROPERTIES[k]), node, k + 1)

\* Mutant: the children list is attached whenever the raw node has one.
keepsChildren_AnyList(kids) == Truthy(kids) /\ kids.t = "array"

\* node.children && node.children.length > 0
keepsChildren(kids) == Truthy(kids) /\ kids.t = "array" /\ Len(kids.v) > 0

RECURSIVE filterNode(_)
\* filterNode(node): the canonical node of a raw node.
filterNode(node) ==
    LET filtered == filterKeys(Obj(<<>>), node, 1)
        kids == Prop(node, "children")
    IN IF keepsChildren(kids)
       THEN SetKey(filtered, "children",
                   Arr([i \in 1..Len(kids.v) |-> filterNode(kids.v[i])]))
       ELSE filtered

\* A raw color {r, g, b, a}; a = Undefined leaves the alpha key out.
RawColor(r, g, b, a) ==
    Obj(<< <<"r", r>>, <<"g", g>>, <<"b", b>> >>
        \o (IF a = Undefined THEN <<>> ELSE << <<"a", a>> >>))

\* A raw SOLID paint of the given color, as the Figma API sends it.
SolidPaint(color) ==
    Obj(<< <<"blendMode", Str("NORMAL")>>, <<"type", Str("SOLID")>>,
           <<"color", color>> >>)

\* The raw node the normalizer is given first: a frame with the properties of
\* the nodes of the converter's tests, holding a text child and a group with
\* a child of its own.
RawBase ==
    Obj(<< <<"id", Str("1:1")>>, <<"name", Str("Test Button")>>,
           <<"type", Str("FRAME")>>,
           <<"visible", Bool(TRUE)>>, <<"opacity", Num(1)>>,
           <<"fills", Arr(<< SolidPaint(RawColor(Num(1), Num(0), Num(0), Num(1))) >>)>>,
           <<"cornerRadius", Num(8)>>,
           <<"absoluteBoundingBox",
             Obj(<< <<"x", Num(10)>>, <<"y", Num(20)>>,
                    <<"width", Num(100)>>, <<"height", Num(40)>> >>)>>,
           <<"blendMode", Str("PASS_THROUGH")>>,
           <<"constraints", Obj(<< <<"vertical", Str("TOP")>>,
                                   <<"horizontal", Str("LEFT")>> >>)>>,
           <<"exportSettings", Arr(<<>>)>>,
           <<"preserveRatio", Bool(FALSE)>>,
           <<"effects", Arr(<<>>)>>,
           <<"children", Arr(<<
              Obj(<< <<"id", Str("1:2")>>, <<"name", Str("Child")>>,
                     <<"type", Str("TEXT")>>, <<"characters", Str("Hello")>>,
                     <<"blendMode", Str("PASS_THROUGH")>> >>),
              Obj(<< <<"id", Str("1:3")>>, <<"name", Str("Icon")>>,
                     <<"type", Str("GROUP")>>,
                     <<"children", Arr(<<
                        Obj(<< <<"id", Str("1:4")>>, <<"name", Str("Shape")>>,
                               <<"type", Str("VECTOR")>>,
                               <<"fills", Arr(<<
                                  Obj(<< <<"type", Str("SOLID")>>,
                                         <<"color", RawColor(Num(1), Num(0),
                                                             Num(0), Num(1))>>,
                                         <<"visible", Bool(FALSE)>> >>) >>)>>
                            >>) >>)>> >>) >>)>> >>)

(* ------------------ the server and what it talks to -------------------- *)

\* config.figma.fileKeys: the files the server tracks, in configured order.
fileKeys == <<"fileA", "fileB">>

TrackedKeys == {fileKeys[i] : i \in 1..Len(fileKeys)}

\* remote: for each tracked file what Figma holds, its version (1, 2, ...)
\*   and which of RemoteDocs its document is.
\* store: the snapshots table, per file the rows in order of creation, each
\*   [version, file]: the version it was saved under and the canonical
\*   document saved (the version Figma gave it and which of RemoteDocs it was
\*   normalized from); and tracked_files.last_version per file, 0 when the
\*   file has no row.
\* processing: WebhookServer.processing.
\* runs: the calls in flight, each with the await it is suspended at and its
\*   locals.
\* sent: the changelogs put out, in order.
\* webhook: the number of POST /webhook requests so far, the payload of the
\*   last one and the HTTP response it got.
\* poller: the number of pollOnce calls so far, the number of calls of
\*   Poller.processFile that have ended, and how the last of them ended.
ServerInit ==
    /\ remote = [f \in TrackedKeys |-> [version |-> 1, doc |-> 1]]
    /\ store = [snapshots |-> [f \in TrackedKeys |-> <<>>],
                tracked |-> [f \in TrackedKeys |-> 0]]
    /\ processing = {}
    /\ runs = <<>>
    /\ sent = <<>>
    /\ webhook = [posts |-> 0, payload |-> Undefined, status |-> 0, body |-> ""]
    /\ poller = [polls |-> 0, calls |-> 0, returned |-> Undefined]

(* ------------------------------ actions -------------------------------- *)
\* rawNode: the raw node handed to filterNode; filteredNode: what it
\* returned.
\* draft: the design file as the designer edits it, starting from BaseFile.
\* oldFile, newFile: the two arguments of the diffSnapshots call.
\* changes: the list the call returned; origin: for each of its records, the
\* node id and page id it was emitted for.

Init ==
    /\ draft = BaseFile
    /\ oldFile = BaseFile
    /\ newFile = BaseFile
    /\ changes = <<>>
    /\ origin = <<>>
    /\ edits = 0
    /\ pc = "edit"
    /\ rawNode = RawBase
    /\ filteredNode = Undefined
    /\ calls = {}
    /\ report = Undefined
    /\ ServerInit

Editing == pc = "edit" /\ edits < MaxEdits

Edited(file) ==
    /\ draft' = file
    /\ edits' = edits + 1
    /\ UNCHANGED <<oldFile, newFile, changes, origin, pc, rawNode, filteredNode,
                   calls, report, serverVars>>

\* The designer sets a property of a node (a rename when the key is `name`).
SetProperty ==
    /\ Editing
    /\ \E p \in 1..Len(draft.pages) :
         \E id \in NodeIds(draft.pages[p].children) :
           \E e \in 1..Len(PropEdits) :
             LET nodes == draft.pages[p].children
                 node == FindNode(nodes, id)
             IN /\ id \in PropEdits[e][3]
                /\ Edited(WithPageChildren(draft, p,
                       ReplaceNode(nodes, id,
                           << SetKey(node, PropEdits[e][1], PropEdits[e][2]) >>)))

\* The designer clears a property of a node.
RemoveProperty ==
    /\ Editing
    /\ \E p \in 1..Len(draft.pages) :
         \E id \in NodeIds(draft.pages[p].children) :
           LET nodes == draft.pages[p].children
               node == FindNode(nodes, id)
           IN \E k \in 1..Len(node.v) :
                /\ node.v[k][1] \notin {"id", "type", "children"}
                /\ Edited(WithPageChildren(draft, p,
                       ReplaceNode(nodes, id, << DeleteKey(node, node.v[k][1]) >>)))

\* The designer adds a node with a fresh id as the last child of a node or
\* as the last top-level node of a page.
AddNode ==
    /\ Editing
    /\ \E p \in 1..Len(draft.pages) :
         \E n \in 1..Len(NewNodes) :
           \E parent \in NodeIds(draft.pages[p].children) \cup {""} :
             LET nodes == draft.pages[p].children
                 sibs == Siblings(nodes, parent)
             IN /\ IdOf(NewNodes[n]) \notin FileNodeIds(draft)
                /\ Edited(WithPageChildren(draft, p,
                       WithSiblings(nodes, parent, Append(sibs, NewNodes[n]))))

\* The designer deletes a node and its subtree.
RemoveNode ==
    /\ Editing
    /\ \E p \in 1..Len(draft.pages) :
         \E id \in NodeIds(draft.pages[p].children) :
           Edited(WithPageChildren(draft, p,
               ReplaceNode(draft.pages[p].children, id, <<>>)))

\* The designer moves a node to another index among its siblings.
MoveNode ==
    /\ Editing
    /\ \E p \in 1..Len(draft.pages) :
         \E parent \in NodeIds(draft.pages[p].children) \cup {""} :
           LET nodes == draft.pages[p].children
               sibs == Siblings(nodes, parent)
           IN \E i \in 1..Len(sibs) : \E j \in 1..Len(sibs) :
                /\ i # j
                /\ Edited(WithPageChildren(draft, p,
                       WithSiblings(nodes, parent,
                                    InsertAt(RemoveAt(sibs, i), j, sibs[i]))))

\* The designer adds an empty page with a fresh id.
AddPage ==
    /\ Editing
    /\ \E n \in 1..Len(NewPages) :
         /\ \A p \in 1..Len(draft.pages) : draft.pages[p].id # NewPages[n].id
         /\ Edited([draft EXCEPT !.pages = Append(@, NewPages[n])])

\* The designer deletes a page.
RemovePage ==
    /\ Editing
    /\ \E p \in 1..Len(draft.pages) :
         Edited([draft EXCEPT !.pages = RemoveAt(@, p)])

\* The designer renames a page.
RenamePage ==
    /\ Editing
    /\ \E p \in 1..Len(draft.pages) : \E name \in PageNames :
         Edited([draft EXCEPT !.pages[p].name = name])

\* The pairs (old, new) a run can diff: the stored snapshot against the edited
\* file, the edited file as the snapshot against the original (the edits
\* undone), and the edited file against itself (nothing changed since it was
\* stored).
DiffInputs == << <<BaseFile, draft>>, <<draft, BaseFile>>, <<draft, draft>> >>

\* const changes = diffSnapshots(prevFiltered, filtered)
RunDiff ==
    /\ pc = "edit"
    /\ \E k \in 1..Len(DiffInputs) :
         \E e \in {diffEmitted(DiffInputs[k][1], DiffInputs[k][2])} :
            /\ oldFile' = DiffInputs[k][1]
            /\ newFile' = DiffInputs[k][2]
            /\ changes' = ChangesOf(e)
            /\ origin' = OriginOf(e)
    /\ pc' = "done"
    /\ UNCHANGED <<draft, edits, rawNode, filteredNode, calls, report, serverVars>>

Next ==
    \/ SetProperty
    \/ RemoveProperty
    \/ AddNode
    \/ RemoveNode
    \/ MoveNode
    \/ AddPage
    \/ RemovePage
    \/ RenamePage
    \/ RunDiff

Spec == Init /\ [][Next]_vars

(* ----------------- malformed documents: duplicate ids ------------------ *)

\* The file arrives with a second node carrying the id of a node the page
\* already has (the caller did not validate it): a different node under an
\* existing id, as the last child of a node or the last top-level node.
DuplicateNode ==
    /\ Editing
    /\ \E p \in 1..Len(draft.pages) :
         \E id \in NodeIds(draft.pages[p].children) :
           \E n \in 1..Len(NewNodes) :
             \E parent \in NodeIds(draft.pages[p].children) \cup {""} :
               LET nodes == draft.pages[p].children
                   sibs == Siblings(nodes, parent)
                   twin == SetKey(NewNodes[n], "id", Str(id))
               IN Edited(WithPageChildren(draft, p,
                      WithSiblings(nodes, parent, Append(sibs, twin))))

NextMalformed ==
    \/ DuplicateNode
    \/ RenamePage
    \/ AddPage
    \/ RunDiff

\* Runs whose documents may hold duplicate node ids.
SpecMalformed == Init /\ [][NextMalformed]_vars

(* ------------------- documents with empty child lists ------------------ *)

\* The file arrives with `children: []` on a node that has no children (a
\* source that keeps the empty list instead of dropping the key).
EmptyChildren ==
    /\ Editing
    /\ \E p \in 1..Len(draft.pages) :
         \E id \in NodeIds(draft.pages[p].children) :
           LET nodes == draft.pages[p].children
               node == FindNode(nodes, id)
           IN /\ ~HasKey(node, "children")
              /\ Edited(WithPageChildren(draft, p,
                     ReplaceNode(nodes, id,
                         << SetKey(node, "children", Arr(<<>>)) >>)))

NextChildren ==
    \/ EmptyChildren
    \/ SetProperty
    \/ AddNode
    \/ RemoveNode
    \/ RunDiff

\* Runs whose documents may hold empty `children` lists.
SpecChildren == Init /\ [][NextChildren]_vars

\* The Figma response that holds the raw node as the only node of one page.
RawResponse(node) ==
    [name |-> "My Figma Design", version |-> "v1",
     lastModified |-> "2024-01-01T00:00:00Z",
     document |->
        Obj(<< <<"id", Str("0:0")>>, <<"name", Str("Document")>>,
               <<"type", Str("DOCUMENT")>>,
               <<"children", Arr(<<
                  Obj(<< <<"id", Str("0:1")>>, <<"name", Str("Home Page")>>,
                         <<"type", Str("CANVAS")>>,
                         <<"children", Arr(<< node >>)>> >>) >>)>> >>)]

\* filterFile(figmaResponse)
filterFile(figmaResponse) ==
    LET pages == OrElse(Prop(figmaResponse.document, "children"), Arr(<<>>)).v
    IN [name |-> figmaResponse.name,
        version |-> figmaResponse.version,
        lastModified |-> figmaResponse.lastModified,
        pages |-> [p \in 1..Len(pages) |->
           [id |-> Prop(pages[p], "id").v,
            name |-> Prop(pages[p], "name").v,
            children |->
               LET kids == OrElse(Prop(pages[p], "children"), Arr(<<>>)).v
               IN [k \in 1..Len(kids) |-> filterNode(kids[k])]]]]

(* ------------------------ normalizing one color ------------------------ *)

\* The channel value k / ChannelSteps.
Channel(k) ==
    IF k % ChannelSteps = 0 THEN Num(k \div ChannelSteps)
    ELSE Frac(k, ChannelSteps)

\* Channel values from below 0 to above 1, in steps of 1 / ChannelSteps.
Channels ==
    {Channel(k) : k \in (0 - ChannelSteps \div 5)..(ChannelSteps + ChannelSteps \div 5)}

\* The alpha values a raw color comes with: none, opaque, half transparent.
Alphas == {Undefined, Num(1), Frac(1, 2)}

\* A raw node painted with one color, as fill and as background.
ColorNode(color) ==
    Obj(<< <<"id", Str("1:1")>>, <<"name", Str("Color Test")>>,
           <<"type", Str("RECTANGLE")>>,
           <<"fills", Arr(<< Obj(<< <<"type", Str("SOLID")>>,
                                    <<"color", color>> >>) >>)>>,
           <<"backgroundColor", color>> >>)

InitColor ==
    /\ draft = BaseFile
    /\ oldFile = BaseFile
    /\ newFile = BaseFile
    /\ changes = <<>>
    /\ origin = <<>>
    /\ edits = 0
    /\ pc = "edit"
    /\ \E r \in Channels : \E g \in Channels : \E b \in Channels :
         \E a \in Alphas : rawNode = ColorNode(RawColor(r, g, b, a))
    /\ filteredNode = Undefined
    /\ calls = {}
    /\ report = Undefined
    /\ ServerInit

\* const filtered = filterNode(node)
RunFilter ==
    /\ pc = "edit"
    /\ filteredNode' = filterNode(rawNode)
    /\ pc' = "done"
    /\ UNCHANGED <<draft, oldFile, newFile, changes, origin, edits, rawNode,
                 calls, report, serverVars>>

NextColor == RunFilter

\* Runs that normalize a node of one color.
SpecColor == InitColor /\ [][NextColor]_vars

(* ----------------------- normalizing raw nodes ------------------------- *)

\* Two gradient stops, as the Figma API sends them.
RawStops ==
    Arr(<< Obj(<< <<"color", RawColor(Num(1), Num(0), Num(0), Num(1))>>,
                  <<"position", Num(0)>> >>),
           Obj(<< <<"color", RawColor(Num(0), Num(0), Num(1), Num(1))>>,
                  <<"position", Num(1)>> >>) >>)

\* The raw paints a fills or strokes list can receive.
Paints ==
    << \* hidden red and shown green: 'should handle hidden fills'
       Obj(<< <<"type", Str("SOLID")>>,
              <<"color", RawColor(Num(1), Num(0), Num(0), Num(1))>>,
              <<"visible", Bool(FALSE)>> >>),
       Obj(<< <<"type", Str("SOLID")>>,
              <<"color", RawColor(Num(0), Num(1), Num(0), Num(1))>> >>),
       \* a half-transparent, explicitly visible solid paint
       Obj(<< <<"blendMode", Str("NORMAL")>>, <<"visible", Bool(TRUE)>>,
              <<"opacity", Frac(1, 2)>>, <<"type", Str("SOLID")>>,
              <<"color", RawColor(Frac(1, 5), Frac(2, 5), Frac(9, 10), Num(1))>> >>),
       Obj(<< <<"blendMode", Str("NORMAL")>>, <<"opacity", Num(1)>>,
              <<"type", Str("GRADIENT_LINEAR")>>,
              <<"gradientStops", RawStops>> >>),
       Obj(<< <<"blendMode", Str("NORMAL")>>,
              <<"type", Str("GRADIENT_ANGULAR")>>,
              <<"gradientStops", RawStops>> >>),
       Obj(<< <<"blendMode", Str("NORMAL")>>, <<"type", Str("IMAGE")>>,
              <<"scaleMode", Str("FILL")>>, <<"imageRef", Str("img-1")>> >>) >>

\* Assignments of a default-omittable property on a raw node:
\* <<key, value, ids of the nodes>>.
DefaultEdits ==
    << <<"visible", Bool(FALSE), {"1:1"}>>,
       <<"visible", Bool(TRUE), {"1:2"}>>,
       <<"opacity", Frac(1, 2), {"1:1"}>>,
       <<"opacity", Num(1), {"1:2"}>>,
       <<"strokeWeight", Num(2), {"1:1"}>>,
       <<"strokeWeight", Num(0), {"1:2"}>>,
       <<"cornerRadius", Num(0), {"1:1"}>>,
       <<"itemSpacing", Num(8), {"1:1"}>>,
       <<"paddingLeft", Num(16), {"1:1"}>>,
       <<"paddingTop", Num(0), {"1:1"}>>,
       <<"layoutMode", Str("HORIZONTAL"), {"1:1"}>>,
       <<"layoutMode", Str("NONE"), {"1:2"}>> >>

\* Other property assignments on a raw node: <<key, value, ids of the nodes>>.
RawEdits ==
    << <<"fills", Arr(<<>>), {"1:1"}>>,
       <<"children", Arr(<<>>), {"1:1", "1:2"}>>,
       <<"blendMode", Str("MULTIPLY"), {"1:1", "1:2"}>>,
       <<"locked", Bool(TRUE), {"1:1"}>> >>

\* The raw node with its node `id` replaced.
WithRawNode(id, node) == ReplaceNode(<< rawNode >>, id, << node >>)[1]

RawEdited(node) ==
    /\ rawNode' = node
    /\ edits' = edits + 1
    /\ UNCHANGED <<draft, oldFile, newFile, changes, origin, pc, filteredNode,
                 calls, report, serverVars>>

\* The raw node arrives with a default-omittable property set to a value.
SetDefaultable ==
    /\ Editing
    /\ \E id \in NodeIds(<< rawNode >>) : \E e \in 1..Len(DefaultEdits) :
         /\ id \in DefaultEdits[e][3]
         /\ RawEdited(WithRawNode(id,
                SetKey(FindNode(<< rawNode >>, id),
                       DefaultEdits[e][1], DefaultEdits[e][2])))

\* The raw node arrives with another property set to a value.
SetRawProperty ==
    /\ Editing
    /\ \E id \in NodeIds(<< rawNode >>) : \E e \in 1..Len(RawEdits) :
         /\ id \in RawEdits[e][3]
         /\ RawEdited(WithRawNode(id,
                SetKey(FindNode(<< rawNode >>, id), RawEdits[e][1], RawEdits[e][2])))

\* The raw node arrives without one of its properties.
RemoveRawProperty ==
    /\ Editing
    /\ \E id \in NodeIds(<< rawNode >>) :
         LET node == FindNode(<< rawNode >>, id)
         IN \E k \in 1..Len(node.v) :
              /\ node.v[k][1] \notin {"id", "name", "type", "children",
                                       "constraints", "exportSettings",
                                       "preserveRatio", "effects"}
              /\ RawEdited(WithRawNode(id, DeleteKey(node, node.v[k][1])))

\* The raw node arrives with one more paint at the end of its fills or strokes.
AddPaint ==
    /\ Editing
    /\ \E key \in {"fills", "strokes"} : \E n \in 1..Len(Paints) :
         LET paints == Prop(rawNode, key)
         IN RawEdited(SetKey(rawNode, key,
                Arr((IF paints.t = "array" THEN paints.v ELSE <<>>)
                    \o << Paints[n] >>)))

NextNormalize ==
    \/ SetRawProperty
    \/ RemoveRawProperty
    \/ AddPaint
    \/ RunFilter

\* Runs that normalize a raw node.
SpecNormalize == Init /\ [][NextNormalize]_vars

NextDefaults ==
    \/ SetDefaultable
    \/ RunFilter

\* Runs that normalize a raw node that only has properties set.
SpecDefaults == Init /\ [][NextDefaults]_vars

(* ------------------- repeated and interleaved calls -------------------- *)

\* The pairs of documents a caller diffs: the stored snapshot and the new
\* fetch, in either order.
CallInputs == << <<BaseFile, draft>>, <<draft, BaseFile>> >>

\* A caller invokes diffSnapshots on a pair of documents it holds; `calls`
\* collects which function was called, on which arguments, and what it
\* returned.
CallDiff ==
    /\ \E k \in 1..Len(CallInputs) :
         \E result \in {diffSnapshots(CallInputs[k][1], CallInputs[k][2])} :
            /\ oldFile' = CallInputs[k][1]
            /\ newFile' = CallInputs[k][2]
            /\ changes' = result
            /\ origin' = OriginOf(diffEmitted(CallInputs[k][1], CallInputs[k][2]))
            /\ calls' = calls \cup {[op |-> "diff", input |-> CallInputs[k],
                                     output |-> << result >>]}
    /\ UNCHANGED <<draft, edits, pc, rawNode, filteredNode, report, serverVars>>

\* A caller invokes filterNode on the raw node it holds.
CallFilter ==
    /\ \E result \in {filterNode(rawNode)} :
         /\ filteredNode' = result
         /\ calls' = calls \cup {[op |-> "normalize", input |-> << rawNode >>,
                                  output |-> << result >>]}
    /\ UNCHANGED <<draft, oldFile, newFile, changes, origin, edits, pc, rawNode,
                   report, serverVars>>

NextCalls ==
    \/ RemovePage
    \/ SetRawProperty
    \/ CallDiff
    \/ CallFilter

\* Runs in which diff and normalize are called again and again, in any
\* order, between the edits of two independent inputs.
SpecCalls == Init /\ [][NextCalls]_vars

(* ---------------------- normalizing bounding boxes --------------------- *)

\* The coordinates and sizes of the raw bounding boxes: integers, halves
\* (10.5, -2.5), and values next to a half (10.49, -1.75).
Coords ==
    {Num(10), Num(0), Frac(21, 2), Frac(0 - 5, 2), Frac(1049, 100),
     Frac(0 - 7, 4)}

\* A raw bounding box, as the Figma API sends it.
RawBox(x, y, width, height) ==
    Obj(<< <<"x", x>>, <<"y", y>>, <<"width", width>>, <<"height", height>> >>)

\* The values the Figma API sends under absoluteBoundingBox: a box, or null
\* for a node that has none.
Boxes ==
    {RawBox(x, y, w, h) : x \in Coords, y \in Coords, w \in Coords, h \in Coords}
    \cup {Null}

InitGeometry ==
    /\ draft = BaseFile
    /\ oldFile = BaseFile
    /\ newFile = BaseFile
    /\ changes = <<>>
    /\ origin = <<>>
    /\ edits = 0
    /\ pc = "edit"
    /\ \/ \E box \in Boxes : rawNode = SetKey(RawBase, "absoluteBoundingBox", box)
       \/ rawNode = DeleteKey(RawBase, "absoluteBoundingBox")
    /\ filteredNode = Undefined
    /\ calls = {}
    /\ report = Undefined
    /\ ServerInit

NextGeometry == RunFilter

\* Runs that normalize a node with one bounding box.
SpecGeometry == InitGeometry /\ [][NextGeometry]_vars

(* ------------------------ formatting one value ------------------------- *)

\* The elements of the lists given to formatValue: paints with and without a
\* color, and a string.
ListElements ==
    {Obj(<< <<"type", Str("SOLID")>>, <<"color", Str("#FF0000")>> >>),
     Obj(<< <<"color", Str("#3366E6")>> >>),
     Obj(<< <<"type", Str("GRADIENT_LINEAR")>> >>),
     Str("x")}

\* The lists of at most three elements.
Lists ==
    {<<>>} \cup {<<a>> : a \in ListElements}
    \cup {<<a, b>> : a \in ListElements, b \in ListElements}
    \cup {<<a, b, c>> : a \in ListElements, b \in ListElements,
                        c \in ListElements}

\* The values given to formatValue.
FormatValues ==
    {Str("Welcome"), Str(""), Str("none"), Num(16), Num(0), Num(0 - 3),
     Bool(TRUE), Bool(FALSE), Null, Undefined}
    \cup {Arr(l) : l \in Lists}
    \cup {Obj(<< <<"x", Num(0)>>, <<"y", Num(0 - 20)>>,
                 <<"w", Num(1200)>>, <<"h", Num(100)>> >>),
          Obj(<< <<"h", Num(40)>>, <<"w", Num(100)>>,
                 <<"y", Num(20)>>, <<"x", Num(10)>> >>),
          Obj(<< <<"w", Num(1)>>, <<"h", Num(2)>> >>),
          Obj(<< <<"w", Num(1)>>, <<"x", Num(2)>>, <<"y", Num(3)>> >>),
          Obj(<< <<"color", Str("#FF0000")>> >>),
          Obj(<< <<"vertical", Str("TOP")>>, <<"horizontal", Str("LEFT")>> >>),
          Obj(<<>>)}

\* In these runs rawNode is the value given to formatValue and filteredNode
\* the text returned.
InitFormat ==
    /\ draft = BaseFile
    /\ oldFile = BaseFile
    /\ newFile = BaseFile
    /\ changes = <<>>
    /\ origin = <<>>
    /\ edits = 0
    /\ pc = "edit"
    /\ rawNode \in FormatValues
    /\ filteredNode = Undefined
    /\ calls = {}
    /\ report = Undefined
    /\ ServerInit

RunFormat ==
    /\ pc = "edit"
    /\ filteredNode' = Str(formatValue(rawNode))
    /\ pc' = "done"
    /\ UNCHANGED <<draft, oldFile, newFile, changes, origin, edits, rawNode,
                   calls, report, serverVars>>

NextFormat == RunFormat

\* Runs that format one value.
SpecFormat == InitFormat /\ [][NextFormat]_vars

(* ----------------------- formatting a change list ---------------------- *)

\* The change records given to formatChangesForLLM: records of two pages, of
\* the three kinds, as compareNodes and diffPage build them.
ChangePool ==
    << modifiedPropertyRecord("fills",
           Arr(<< Obj(<< <<"color", Str("#3366E6")>> >>) >>),
           Arr(<< Obj(<< <<"color", Str("#FF0000")>> >>) >>),
           "Header / Login Button", "Home Page"),
       addedNodeRecord(Str("1:9"),
           [node |-> Obj(<< <<"id", Str("1:9")>>, <<"name", Str("New Badge")>>,
                            <<"type", Str("FRAME")>> >>),
            path |-> "Header / New Badge"], "Home Page"),
       removedNodeRecord(Str("2:1"),
           [node |-> Obj(<< <<"id", Str("2:1")>>, <<"type", Str("RECTANGLE")>> >>),
            path |-> "2:1"], "About"),
       removedPropertyRecord("fontSize", Num(16), "Header / Hero Title", "About"),
       renameRecord(Str("Header"), Str("Top"), "Top", "Home Page") >>

\* How many changes a list given to formatChangesForLLM has at most.
MaxChanges == 3

\* The lists of at most `n` records of the pool.
RECURSIVE ChangeLists(_)
ChangeLists(n) ==
    IF n = 0 THEN {<<>>}
    ELSE LET shorter == ChangeLists(n - 1)
         IN shorter \cup {Append(cs, ChangePool[k]) :
                            cs \in shorter, k \in 1..Len(ChangePool)}

InitReport ==
    /\ draft = BaseFile
    /\ oldFile = BaseFile
    /\ newFile = BaseFile
    /\ changes \in ChangeLists(MaxChanges)
    /\ origin = <<>>
    /\ edits = 0
    /\ pc = "edit"
    /\ rawNode = RawBase
    /\ filteredNode = Undefined
    /\ calls = {}
    /\ report = Undefined
    /\ ServerInit

\* formatChangesForLLM runs on the list; `report` keeps the text returned and
\* the lines it was joined from.
RunReport ==
    /\ pc = "edit"
    /\ report' = [text |-> formatChangesForLLM(changes),
                  lines |-> IF Len(changes) = 0 THEN <<>> ELSE formatLines(changes)]
    /\ pc' = "done"
    /\ UNCHANGED <<draft, oldFile, newFile, changes, origin, edits, rawNode,
                   filteredNode, calls, serverVars>>

NextReport == RunReport

\* Runs that format one list of changes.
SpecReport == InitReport /\ [][NextReport]_vars

(* ------------------- diffs of documents with other pages ---------------- *)

\* The second page of the stored document with its node named.
NamedPage ==
    [BaseFile.pages[2] EXCEPT
       !.children = << SetKey(BaseFile.pages[2].children[1], "name", Str("Card")) >>]

\* The documents the new fetch starts from: the stored one, one whose second
\* page was replaced by a new page, and one with a new page first and the
\* two pages, one of them changed, in the other order.
StartDrafts ==
    {BaseFile,
     [BaseFile EXCEPT !.pages = << BaseFile.pages[1], NewPages[1] >>],
     [BaseFile EXCEPT !.pages = << NewPages[1], NamedPage, BaseFile.pages[1] >>]}

InitOrder ==
    /\ draft \in StartDrafts
    /\ oldFile = BaseFile
    /\ newFile = BaseFile
    /\ changes = <<>>
    /\ origin = <<>>
    /\ edits = 0
    /\ pc = "edit"
    /\ rawNode = RawBase
    /\ filteredNode = Undefined
    /\ calls = {}
    /\ report = Undefined
    /\ ServerInit

NextOrder ==
    \/ AddNode
    \/ RemoveNode
    \/ SetProperty
    \/ MoveNode
    \/ RunDiff

\* Runs that diff documents whose pages and nodes differ.
SpecOrder == InitOrder /\ [][NextOrder]_vars

(* -------------------- store.ts: the snapshot store --------------------- *)

\* keepCount of cleanOldSnapshots.
KeepCount == 10

\* How ORDER BY created_at DESC orders rows of one created_at, which SQL
\* leaves to the query plan: as they were inserted, or the other way round.
TieOrders == {"oldestFirst", "newestFirst"}

\* datetime('now') at a save of the file by one of the servers, in seconds:
\* the servers save a file after awaiting Figma, so that saves of one file
\* are taken to be more than a second apart.
datetimeNow(st, fileKey) ==
    LET rows == st.snapshots[fileKey]
    IN IF rows = <<>> THEN 1
       ELSE 1 + CHOOSE t \in {rows[k].createdAt : k \in 1..Len(rows)} :
                   \A k \in 1..Len(rows) : rows[k].createdAt <= t

saveSnapshot_Nothing(st, fileKey, version, file, now) == st

\* saveSnapshot(fileKey, version, ...) at the second `now`: INSERT OR REPLACE
\* under UNIQUE(file_key, version) removes the row of the pair and inserts a
\* row with a new id and created_at = datetime('now').  The rows of a file
\* are listed by id.
saveSnapshot(st, fileKey, version, file, now) ==
    [st EXCEPT !.snapshots[fileKey] =
        Append(SelectSeq(@, LAMBDA row : row.version # version),
               [version |-> version, createdAt |-> now, file |-> file])]

\* The rows i of a file that have fewer than `limit` rows before them in
\* ORDER BY created_at DESC, that is, the rows of ... LIMIT limit.
newestRows(st, fileKey, limit) ==
    LET rows == st.snapshots[fileKey]
        comesBefore(j, i) ==
            \/ rows[j].createdAt > rows[i].createdAt
            \/ /\ j # i
               /\ rows[j].createdAt = rows[i].createdAt
               /\ IF st.ties = "oldestFirst" THEN j < i ELSE j > i
    IN {i \in 1..Len(rows) :
          Cardinality({j \in 1..Len(rows) : comesBefore(j, i)}) < limit}

\* getLatestSnapshot(fileKey): the first row of the file in ORDER BY
\* created_at DESC, undefined when it has none.
getLatestSnapshot(st, fileKey) ==
    IF st.snapshots[fileKey] = <<>> THEN Undefined
    ELSE st.snapshots[fileKey][CHOOSE i \in newestRows(st, fileKey, 1) : TRUE]

\* getLastVersion(fileKey): 0 stands for undefined.
getLastVersion(st, fileKey) == st.tracked[fileKey]

\* updateTrackedFile(fileKey, fileName, version)
updateTrackedFile(st, fileKey, version) ==
    [st EXCEPT !.tracked[fileKey] = version]

\* cleanOldSnapshots(fileKey, keepCount): DELETE the rows of the file whose
\* id is not among the first keepCount in ORDER BY created_at DESC.
cleanOldSnapshots(st, fileKey, keepCount) ==
    LET rows == st.snapshots[fileKey]
        kept == {rows[i].version : i \in newestRows(st, fileKey, keepCount)}
    IN [st EXCEPT !.snapshots[fileKey] =
           SelectSeq(rows, LAMBDA row : row.version \in kept)]

(* ------------------------ what Figma holds ----------------------------- *)

\* The node a tracked file holds: as first fetched, with a rounder corner,
\* and with the rounder corner and a property the normalizer drops.
RemoteNodes ==
    << Obj(<< <<"id", Str("1:1")>>, <<"name", Str("Login Button")>>,
              <<"type", Str("FRAME")>>, <<"cornerRadius", Num(8)>> >>),
       Obj(<< <<"id", Str("1:1")>>, <<"name", Str("Login Button")>>,
              <<"type", Str("FRAME")>>, <<"cornerRadius", Num(12)>> >>),
       Obj(<< <<"id", Str("1:1")>>, <<"name", Str("Login Button")>>,
              <<"type", Str("FRAME")>>, <<"cornerRadius", Num(12)>>,
              <<"scrollBehavior", Str("SCROLLS")>> >>) >>

\* The responses of GET /files/:key these nodes arrive in.
RemoteDocs == [i \in 1..Len(RemoteNodes) |-> RawResponse(RemoteNodes[i])]

\* filterFile of each of these responses; the stored filteredJson of a
\* snapshot row parses back to the same document.
CanonicalDocs == [d \in 1..Len(RemoteNodes) |-> filterFile(RemoteDocs[d])]

\* diffSnapshots of every two of them: [a][b] is the list for the stored
\* document a and the fetched document b.
ChangesBetween ==
    [a \in 1..Len(RemoteNodes) |->
        [b \in 1..Len(RemoteNodes) |->
            diffSnapshots(CanonicalDocs[a], CanonicalDocs[b])]]

\* The variables of the pipeline runs, which the server leaves alone.
pipelineVars ==
    <<draft, oldFile, newFile, changes, origin, pc, rawNode, filteredNode,
      calls, report>>

\* The files the designers work on.
EditedKeys == {fileKeys[1]}

\* A designer saves a file: Figma holds a next version of it, with the next
\* of the documents (after the last one, the first again).
DesignerEdits ==
    /\ edits < MaxEdits
    /\ \E f \in EditedKeys :
         remote' = [remote EXCEPT ![f] =
                       [version |-> @.version + 1,
                        doc |-> (@.doc % Len(RemoteNodes)) + 1]]
    /\ edits' = edits + 1
    /\ UNCHANGED <<pipelineVars, poller, store, processing, runs, sent, webhook>>

(* -------------------- webhook-server.ts: the server -------------------- *)

\* How many POST /webhook requests arrive.
MaxPosts == 2

\* maxRetries of postToMattermost.
MaxRetries == 3

\* this.passcode
Passcode == "dr_secret"

\* The payloads of the POST /webhook requests: FILE_UPDATE events for the
\* tracked files with the configured passcode, and payloads with another
\* passcode, another event type, no file key, or the key of another file.
\* file_key "" stands for a payload without one.
Payloads ==
    {[passcode |-> Passcode, event_type |-> "FILE_UPDATE", file_key |-> f] :
        f \in TrackedKeys}
    \cup {[passcode |-> "other", event_type |-> "FILE_UPDATE",
           file_key |-> fileKeys[1]],
          [passcode |-> Passcode, event_type |-> "FILE_DELETE",
           file_key |-> fileKeys[1]],
          [passcode |-> Passcode, event_type |-> "FILE_UPDATE",
           file_key |-> ""],
          [passcode |-> Passcode, event_type |-> "FILE_UPDATE",
           file_key |-> "fileX"]}

\* The program is started as the webhook server or as the poller.  The
\* webhook server is the one that runs: no poll has been started.
WebhookRuns == poller.polls = 0

\* The poller is the one that runs: no request has reached a webhook server.
PollerRuns == webhook.posts = 0

\* payload.passcode !== this.passcode
passcodeDiffers_Never(payload) == FALSE

passcodeDiffers(payload) == payload.passcode # Passcode

\* this.config.figma.fileKeys.includes(payload.file_key)
isTracked(key) == \E i \in 1..Len(fileKeys) : fileKeys[i] = key

\* Whether the handler of POST /webhook gets to call processFile.
callsProcessFile(payload) ==
    IF passcodeDiffers(payload) THEN FALSE
    ELSE IF payload.event_type = "FILE_UPDATE" /\ payload.file_key # ""
         THEN IF ~isTracked(payload.file_key) THEN FALSE ELSE TRUE
         ELSE FALSE

\* this.processing.has(fileKey)
has_Never(set, fileKey) == FALSE

has(set, fileKey) == fileKey \in set

\* The run in flight is one of WebhookServer.processFile: no call of pollOnce.
ofWebhook(run) == run.poll = 0

\* Date.now().toString() as a run of the file reads it: later than at every
\* snapshot the file has.
DateNow(fileKey) == 1000 + Len(store.snapshots[fileKey])

\* A POST /webhook arrives: the handler answers 200 "received", parses the
\* payload and, if it passes the checks, calls processFile, which returns at
\* once if the file is being processed and otherwise marks it and waits for
\* the delay.  payload.timestamp is the version Figma holds of the file then.
Post ==
    /\ WebhookRuns
    /\ webhook.posts < MaxPosts
    /\ \E p \in Payloads :
         LET key == p.file_key
             payload == [passcode |-> p.passcode, event_type |-> p.event_type,
                         file_key |-> key,
                         timestamp |-> IF key \in TrackedKeys
                                       THEN remote[key].version ELSE 0]
         IN /\ webhook' = [posts |-> webhook.posts + 1, payload |-> payload,
                           status |-> 200, body |-> "received"]
            /\ IF callsProcessFile(payload) /\ ~has(processing, key)
               THEN /\ processing' = processing \cup {key}
                    /\ runs' = Append(runs,
                          [poll |-> 0, file |-> key, at |-> "delay",
                           figmaFile |-> [version |-> 0, doc |-> 0],
                           prevSnapshot |-> Undefined, changeCount |-> 0,
                           version |-> 0, changelog |-> "", attempt |-> 0])
               ELSE UNCHANGED <<processing, runs>>
    /\ UNCHANGED <<pipelineVars, poller, edits, remote, store, sent>>

\* The delay of a run is over and Figma serves its GET /files/:key.
GetFileServed ==
    /\ \E i \in 1..Len(runs) :
         /\ runs[i].at = "delay"
         /\ runs' = [runs EXCEPT ![i].at = "getFile",
                                 ![i].figmaFile = remote[runs[i].file]]
    /\ UNCHANGED <<pipelineVars, poller, edits, remote, store, processing, sent, webhook>>

\* What a run of processFile does when the response arrives, as the store,
\* the processing set and the runs in flight it leaves: it normalizes the
\* file and looks up the previous snapshot.  Without one it saves the
\* baseline; with one and no change it saves the snapshot; in both cases it
\* ends.  Otherwise it asks for the changelog.
afterGetFile(i, found) ==
    LET run == runs[i]
        prevSnapshot == getLatestSnapshot(store, run.file)
        version == DateNow(run.file)
        ended == [processing |-> processing \ {run.file},
                  runs |-> RemoveAt(runs, i)]
    IN IF prevSnapshot = Undefined
       THEN [store |-> updateTrackedFile(
                          saveSnapshot(store, run.file, version,
                                       run.figmaFile,
                                       datetimeNow(store, run.file)),
                          run.file, version)] @@ ended
       ELSE IF found = 0
            THEN [store |-> saveSnapshot(store, run.file, version,
                                       run.figmaFile,
                                       datetimeNow(store, run.file))] @@ ended
            ELSE [store |-> store, processing |-> processing,
                  runs |-> [runs EXCEPT
                              ![i].at = "generateChangelog",
                              ![i].prevSnapshot = prevSnapshot.file,
                              ![i].changeCount = found,
                              ![i].version = version]]

\* The request for the file fails: getFile throws, the run ends through its
\* finally block and the handler logs the error.
GetFileThrows ==
    /\ \E i \in 1..Len(runs) :
         /\ ofWebhook(runs[i])
         /\ runs[i].at = "getFile"
         /\ processing' = processing \ {runs[i].file}
         /\ runs' = RemoveAt(runs, i)
    /\ UNCHANGED <<pipelineVars, poller, edits, remote, store, sent, webhook>>

\* generateChangelog returns: the text of the LLM, or, when the LLM call
\* failed, the rule-based fallback.  The run calls notifier.send, which makes
\* its first POST to Mattermost.
GenerateChangelogReturns ==
    /\ \E i \in 1..Len(runs) : \E text \in {"llm", "fallback"} :
         /\ runs[i].at = "generateChangelog"
         /\ runs' = [runs EXCEPT ![i].at = "send", ![i].changelog = text,
                                 ![i].attempt = 1]
    /\ UNCHANGED <<pipelineVars, poller, edits, remote, store, processing, sent, webhook>>

\* A POST to Mattermost ends: delivered, or failed; after a failure the next
\* attempt follows, and after the last one (the loop ends with `attempt`
\* above maxRetries) the changelog is printed to the terminal.
PostReturns ==
    /\ \E i \in 1..Len(runs) : \E ok \in BOOLEAN :
         LET run == runs[i]
         IN /\ run.at = "send"
            /\ IF ok
               THEN /\ sent' = Append(sent, [file |-> run.file,
                                             to |-> "mattermost"])
                    /\ runs' = [runs EXCEPT ![i].at = "sent"]
               ELSE IF run.attempt < MaxRetries
               THEN /\ runs' = [runs EXCEPT ![i].attempt = @ + 1]
                    /\ UNCHANGED sent
               ELSE /\ sent' = Append(sent, [file |-> run.file,
                                             to |-> "terminal"])
                    /\ runs' = [runs EXCEPT ![i].at = "sent",
                                            ![i].attempt = @ + 1]
    /\ UNCHANGED <<pipelineVars, poller, edits, remote, store, processing, webhook>>

\* await this.notifier.send(...) is over for the run.
sendHasReturned_Early(run) == run.at \in {"send", "sent"}

sendHasReturned(run) == run.at = "sent"

\* notifier.send has returned: the run saves the snapshot, updates the
\* tracked file, cleans old snapshots and ends.
SendReturns ==
    /\ \E i \in 1..Len(runs) :
         LET run == runs[i]
         IN /\ ofWebhook(run)
            /\ sendHasReturned(run)
            /\ store' = cleanOldSnapshots(
                           updateTrackedFile(
                              saveSnapshot(store, run.file, run.version,
                                           run.figmaFile,
                                           datetimeNow(store, run.file)),
                              run.file, run.version),
                           run.file, KeepCount)
            /\ processing' = processing \ {run.file}
            /\ runs' = RemoveAt(runs, i)
    /\ UNCHANGED <<pipelineVars, poller, edits, remote, sent, webhook>>

(* ------------------------ poller.ts: the poller ------------------------ *)

\* How many times pollOnce is called: at start and by the schedule.
MaxPolls == 2

\* A call of pollOnce, the n-th one, about to process the k-th file:
\* processFile has asked Figma for the metadata of the file.
PollRun(n, k) ==
    [poll |-> n, next |-> k, file |-> fileKeys[k], at |-> "getFileMetadata",
     metadata |-> 0, figmaFile |-> [version |-> 0, doc |-> 0],
     prevSnapshot |-> Undefined, changeCount |-> 0, changelog |-> "",
     attempt |-> 0]

\* Two calls of pollOnce are going on: the schedule fires no third one before
\* one of them is over.
TwoPollsInFlight == Len(runs) >= 2

\* pollOnce is called, at start or by the schedule, whether or not an
\* earlier call is still going on.
StartPoll ==
    /\ PollerRuns
    /\ poller.polls < MaxPolls
    /\ ~TwoPollsInFlight
    /\ poller' = [poller EXCEPT !.polls = @ + 1]
    /\ runs' = Append(runs, PollRun(poller.polls + 1, 1))
    /\ UNCHANGED <<pipelineVars, edits, remote, store, processing, sent, webhook>>

\* Mutant: an error in processFile ends the call of pollOnce.
afterProcessFile_Abort(i) == RemoveAt(runs, i)

\* The loop of pollOnce once processFile has ended for the file of the i-th
\* call in flight: on to the next file, or done.
afterProcessFile(i) ==
    IF runs[i].next < Len(fileKeys)
    THEN [runs EXCEPT ![i] = PollRun(runs[i].poll, runs[i].next + 1)]
    ELSE RemoveAt(runs, i)

\* processFile returns { hasChanges, changeCount } for the file, of which it
\* had read the version as metadata.version, at one of its return
\* statements: "sameVersion", "firstScan", "noChanges" or "changes".
Returns(fileKey, version, at, hasChanges, changeCount) ==
    [poller EXCEPT !.calls = @ + 1,
                   !.returned = [file |-> fileKey, version |-> version,
                                 at |-> at, hasChanges |-> hasChanges,
                                 changeCount |-> changeCount,
                                 threw |-> FALSE]]

\* processFile throws.
Throws(fileKey) ==
    [poller EXCEPT !.calls = @ + 1,
                   !.returned = [file |-> fileKey, version |-> 0,
                                 at |-> "", hasChanges |-> FALSE,
                                 changeCount |-> 0, threw |-> TRUE]]

\* lastVersion === metadata.version
sameVersion_Never(lastVersion, version) == FALSE

sameVersion(lastVersion, version) == lastVersion = version

\* Figma answers with the metadata of the file: processFile returns if the
\* stored last version is the version of the metadata, and asks for the full
\* file otherwise.
GetFileMetadataReturns ==
    /\ \E i \in 1..Len(runs) :
         LET run == runs[i]
             version == remote[run.file].version
         IN /\ run.at = "getFileMetadata"
            /\ IF sameVersion(getLastVersion(store, run.file), version)
               THEN /\ poller' = Returns(run.file, version, "sameVersion",
                                              FALSE, 0)
                    /\ runs' = afterProcessFile(i)
               ELSE /\ runs' = [runs EXCEPT ![i].at = "getFile",
                                            ![i].metadata = version]
                    /\ UNCHANGED poller
    /\ UNCHANGED <<pipelineVars, edits, remote, store, processing, sent, webhook>>

\* What processFile of the poller does with the full file, as the store, the
\* calls in flight and the poller's record it leaves: without a previous
\* snapshot it saves the baseline, with one and no change it saves the
\* snapshot, both under metadata.version, and returns; otherwise it asks for
\* the changelog.
pollAfterGetFile(i, found) ==
    LET run == runs[i]
        figmaFile == remote[run.file]
        prevSnapshot == getLatestSnapshot(store, run.file)
        saved == updateTrackedFile(
                    saveSnapshot(store, run.file, run.metadata, figmaFile,
                                      datetimeNow(store, run.file)),
                    run.file, run.metadata)
        returned(at) == [store |-> saved, runs |-> afterProcessFile(i),
                         poller |-> Returns(run.file, run.metadata, at,
                                            FALSE, 0)]
    IN IF prevSnapshot = Undefined THEN returned("firstScan")
       ELSE IF found = 0 THEN returned("noChanges")
            ELSE [store |-> store, poller |-> poller,
                  runs |-> [runs EXCEPT
                              ![i].at = "generateChangelog",
                              ![i].figmaFile = figmaFile,
                              ![i].prevSnapshot = prevSnapshot.file,
                              ![i].changeCount = found]]

\* Figma's answer with the full file reaches the processFile that asked for
\* it, of the webhook server or of the poller: processFile normalizes the
\* file, looks up the previous snapshot and, when there is one, counts the
\* records of diffSnapshots(prevFiltered, filtered).
GetFileReturns ==
    /\ \E i \in 1..Len(runs) :
         LET run == runs[i]
             figmaFile == IF ofWebhook(run) THEN run.figmaFile
                          ELSE remote[run.file]
             prevSnapshot == getLatestSnapshot(store, run.file)
             found == IF prevSnapshot = Undefined THEN 0
                      ELSE Len(ChangesBetween[prevSnapshot.file.doc]
                                             [figmaFile.doc])
         IN /\ run.at = "getFile"
            /\ \E next \in {IF ofWebhook(run)
                             THEN afterGetFile(i, found) @@
                                  [poller |-> poller]
                             ELSE pollAfterGetFile(i, found) @@
                                  [processing |-> processing]} :
                 /\ store' = next.store
                 /\ processing' = next.processing
                 /\ runs' = next.runs
                 /\ poller' = next.poller
    /\ UNCHANGED <<pipelineVars, edits, remote, sent, webhook>>

\* A request to Figma fails: processFile throws, pollOnce logs the error and
\* goes on.
PollThrows ==
    /\ \E i \in 1..Len(runs) :
         /\ ~ofWebhook(runs[i])
         /\ runs[i].at \in {"getFileMetadata", "getFile"}
         /\ poller' = Throws(runs[i].file)
         /\ runs' = afterProcessFile(i)
    /\ UNCHANGED <<pipelineVars, edits, remote, store, processing, sent, webhook>>

\* notifier.send has returned: processFile saves the snapshot, updates the
\* tracked file, cleans old snapshots and returns the number of changes.
PollSendReturns ==
    /\ \E i \in 1..Len(runs) :
         LET run == runs[i]
         IN /\ ~ofWebhook(run)
            /\ sendHasReturned(run)
            /\ store' = cleanOldSnapshots(
                           updateTrackedFile(
                              saveSnapshot(store, run.file, run.metadata,
                                           run.figmaFile,
                                           datetimeNow(store, run.file)),
                              run.file, run.metadata),
                           run.file, KeepCount)
            /\ poller' = Returns(run.file, run.metadata, "changes", TRUE,
                                  run.changeCount)
            /\ runs' = afterProcessFile(i)
    /\ UNCHANGED <<pipelineVars, edits, remote, processing, sent, webhook>>

(* ------------------ the stored snapshot of an unchanged file ------------ *)

RECURSIVE JsonParseStringify(_)
\* JSON.parse(JSON.stringify(val)): an object loses the keys that hold
\* undefined, an undefined element of an array comes back as null.
JsonParseStringify(val) ==
    CASE val.t = "array" ->
           Arr([i \in 1..Len(val.v) |->
                  IF val.v[i].t = "undefined" THEN Null
                  ELSE JsonParseStringify(val.v[i])])
      [] val.t = "object" ->
           LET kept == SelectSeq(val.v, LAMBDA p : p[2].t # "undefined")
           IN Obj([i \in 1..Len(kept) |->
                     <<kept[i][1], JsonParseStringify(kept[i][2])>>])
      [] OTHER -> val

\* The raw node arrives with one more paint at the end of its fills or
\* strokes: an image without its reference or its scale mode, or a gradient
\* whose stops have no position.
AddPartialPaint ==
    /\ Editing
    /\ \E key \in {"fills", "strokes"} :
         \E paint \in
            { Obj(<< <<"type", Str("IMAGE")>>, <<"scaleMode", Str("FILL")>> >>),
              Obj(<< <<"type", Str("IMAGE")>>, <<"imageRef", Str("img-1")>> >>),
              Obj(<< <<"type", Str("IMAGE")>> >>),
              Obj(<< <<"type", Str("GRADIENT_LINEAR")>>,
                     <<"gradientStops",
                       Arr(<< Obj(<< <<"color", RawColor(Num(1), Num(0), Num(0), Num(1))>> >>),
                              Obj(<< <<"color", RawColor(Num(0), Num(0), Num(1), Num(1))>>,
                                     <<"position", Num(1)>> >>) >>)>> >>) } :
            LET paints == Prop(rawNode, key)
            IN RawEdited(SetKey(rawNode, key,
                   Arr((IF paints.t = "array" THEN paints.v ELSE <<>>)
                       \o << paint >>)))

\* processFile on a file whose raw document is the one of the fetch before:
\* the earlier call stored JSON.stringify(filtered), this call parses it and
\* diffs it against its own filterFile(figmaFile).
ProcessUnchanged ==
    /\ pc = "edit"
    /\ \E filtered \in {filterFile(RawResponse(rawNode))} :
         \E prevFiltered \in
            {[filtered EXCEPT !.pages = [p \in 1..Len(filtered.pages) |->
                [filtered.pages[p] EXCEPT !.children =
                    [k \in 1..Len(filtered.pages[p].children) |->
                       JsonParseStringify(filtered.pages[p].children[k])]]]]} :
            /\ oldFile' = prevFiltered
            /\ newFile' = filtered
            /\ changes' = diffSnapshots(prevFiltered, filtered)
    /\ pc' = "done"
    /\ UNCHANGED <<draft, origin, edits, rawNode, filteredNode, calls, report,
                   serverVars>>

NextPersisted ==
    \/ SetRawProperty
    \/ RemoveRawProperty
    \/ AddPaint
    \/ AddPartialPaint
    \/ ProcessUnchanged

\* Runs that fetch a raw document twice without a change in between.
SpecPersisted == Init /\ [][NextPersisted]_vars

(* ---------------------- the store under its callers -------------------- *)

\* The seconds the clock of the database goes through.
MaxNow == 2

\* The versions snapshots are saved under.
MaxVersions == 2

\* An empty database, on a machine whose SQLite orders equal created_at one
\* way or the other; store.now is the second datetime('now') gives.
InitStore ==
    /\ draft = BaseFile
    /\ oldFile = BaseFile
    /\ newFile = BaseFile
    /\ changes = <<>>
    /\ origin = <<>>
    /\ edits = 0
    /\ pc = "edit"
    /\ rawNode = RawBase
    /\ filteredNode = Undefined
    /\ calls = {}
    /\ report = Undefined
    /\ remote = [f \in TrackedKeys |-> [version |-> 1, doc |-> 1]]
    /\ store \in {[snapshots |-> [f \in TrackedKeys |-> <<>>],
                   tracked |-> [f \in TrackedKeys |-> 0],
                   now |-> 1, ties |-> t] : t \in TieOrders}
    /\ processing = {}
    /\ runs = <<>>
    /\ sent = <<>>
    /\ webhook = [posts |-> 0, payload |-> Undefined, status |-> 0, body |-> ""]
    /\ poller = [polls |-> 0, calls |-> 0, returned |-> Undefined]

\* A second goes by.
Tick ==
    /\ store.now < MaxNow
    /\ store' = [store EXCEPT !.now = @ + 1]
    /\ UNCHANGED <<pipelineVars, edits, remote, processing, runs, sent, webhook,
                   poller>>

\* A caller saves a snapshot of a file under a version.
SaveSnapshot ==
    /\ \E fileKey \in TrackedKeys : \E version \in 1..MaxVersions :
         store' = saveSnapshot(store, fileKey, version,
                               [version |-> version, doc |-> 1], store.now)
    /\ UNCHANGED <<pipelineVars, edits, remote, processing, runs, sent, webhook,
                   poller>>

\* A caller cleans the snapshots of a file, keeping some number of them.
CleanOldSnapshots ==
    /\ \E fileKey \in TrackedKeys : \E keepCount \in 1..MaxVersions :
         store' = cleanOldSnapshots(store, fileKey, keepCount)
    /\ UNCHANGED <<pipelineVars, edits, remote, processing, runs, sent, webhook,
                   poller>>

NextStore ==
    \/ Tick
    \/ SaveSnapshot
    \/ CleanOldSnapshots

\* The Store under any calls of saveSnapshot and cleanOldSnapshots, at any
\* times.
SpecStore == InitStore /\ [][NextStore]_vars

(* ---------------------- mattermost.ts: the Notifier -------------------- *)

\* A changelog as the list of its characters; those trim() strips.
Whitespace == {" ", "\n"}

\* The changelogs send is called with: empty, blank, and with text.
Changelogs ==
    {<<>>, <<" ">>, <<"\n", " ">>, <<"a">>, <<" ", "a", "\n">>, <<"a", " ", "b">>}

\* String.prototype.trim: the text without the whitespace at its two ends.
RECURSIVE trim(_)
trim(text) ==
    IF text = <<>> THEN <<>>
    ELSE IF Head(text) \in Whitespace THEN trim(Tail(text))
    ELSE IF text[Len(text)] \in Whitespace
         THEN trim(SubSeq(text, 1, Len(text) - 1))
    ELSE text

\* Mutant: only the empty changelog counts as blank.
isBlank_EmptyOnly(changelog) == changelog = <<>>

\* !changelog || changelog.trim() === ''
isBlank(changelog) == changelog = <<>> \/ trim(changelog) = <<>>

\* send(changelog, fileName) is called on a Notifier of either config.mode, once for
\* a file name: for a blank changelog it returns at once; in terminal mode
\* it prints the changelog and returns; otherwise postToMattermost makes its
\* first POST.
Send ==
    /\ \E fileName \in TrackedKeys : \E changelog \in Changelogs :
       \E mode \in {"terminal", "mattermost"} :
         LET call == [poll |-> 0, file |-> fileName, mode |-> mode,
                      changelog |-> changelog, at |-> "sent", attempt |-> 0]
         IN /\ ~(\E i \in 1..Len(runs) : runs[i].file = fileName)
            /\ IF isBlank(changelog)
               THEN /\ runs' = Append(runs, call)
                    /\ UNCHANGED sent
               ELSE IF mode = "terminal"
               THEN /\ runs' = Append(runs, call)
                    /\ sent' = Append(sent, [file |-> fileName,
                                             to |-> "terminal"])
               ELSE /\ runs' = Append(runs, [call EXCEPT !.at = "send",
                                                         !.attempt = 1])
                    /\ UNCHANGED sent
    /\ UNCHANGED <<pipelineVars, poller, edits, remote, store, processing, webhook>>

NextNotifier ==
    \/ Send
    \/ PostReturns

\* The Notifier under calls of send, every POST ending in a response or in
\* an error.
SpecNotifier ==
    /\ Init /\ [][NextNotifier]_vars
    /\ WF_vars(PostReturns)

(* ----------------------- the servers as programs ----------------------- *)

NextWebhook ==
    \/ DesignerEdits
    \/ Post
    \/ GetFileServed
    \/ GetFileReturns
    \/ GetFileThrows
    \/ GenerateChangelogReturns
    \/ PostReturns
    \/ SendReturns

\* The webhook server while designers edit the tracked files and requests
\* arrive, with the calls to Figma, the LLM and Mattermost succeeding or
\* failing.
SpecWebhook == Init /\ [][NextWebhook]_vars

\* The webhook server when every call it awaits settles: the delay ends,
\* Figma answers or fails, the LLM and Mattermost answer or fail.
SpecWebhookFair ==
    /\ Init /\ [][NextWebhook]_vars
    /\ WF_vars(GetFileServed)
    /\ WF_vars(GetFileReturns \/ GetFileThrows)
    /\ WF_vars(GenerateChangelogReturns)
    /\ WF_vars(PostReturns)
    /\ WF_vars(SendReturns)

NextWebhookLive ==
    \/ DesignerEdits
    \/ Post
    \/ GetFileServed
    \/ GetFileReturns
    \/ GenerateChangelogReturns
    \/ PostReturns
    \/ SendReturns

\* The webhook server when Figma answers every request for a file, and the
\* delay, the LLM call and the posts to Mattermost come to an end.
SpecWebhookLive ==
    /\ Init /\ [][NextWebhookLive]_vars
    /\ WF_vars(GetFileServed)
    /\ WF_vars(GetFileReturns)
    /\ WF_vars(GenerateChangelogReturns)
    /\ WF_vars(PostReturns)
    /\ WF_vars(SendReturns)

NextPoller ==
    \/ DesignerEdits
    \/ StartPoll
    \/ GetFileMetadataReturns
    \/ GetFileReturns
    \/ PollThrows
    \/ GenerateChangelogReturns
    \/ PostReturns
    \/ PollSendReturns

\* The poller while designers edit the tracked files, with the requests to
\* Figma, the LLM and Mattermost succeeding or failing.
SpecPoller == Init /\ [][NextPoller]_vars

\* The program started on the database file of an earlier run of it, which
\* scanned every tracked file once when Figma held version 1 of it: the
\* Store opens the file with a baseline row and the last version of each;
\* everything else is as at a first start.
InitScanned ==
    /\ draft = BaseFile
    /\ oldFile = BaseFile
    /\ newFile = BaseFile
    /\ changes = <<>>
    /\ origin = <<>>
    /\ edits = 0
    /\ pc = "edit"
    /\ rawNode = RawBase
    /\ filteredNode = Undefined
    /\ calls = {}
    /\ report = Undefined
    /\ remote = [f \in TrackedKeys |-> [version |-> 1, doc |-> 1]]
    /\ store = [snapshots |->
                   [f \in TrackedKeys |->
                      <<[version |-> 1, createdAt |-> 1,
                         file |-> [version |-> 1, doc |-> 1]]>>],
                tracked |-> [f \in TrackedKeys |-> 1]]
    /\ processing = {}
    /\ runs = <<>>
    /\ sent = <<>>
    /\ webhook = [posts |-> 0, payload |-> Undefined, status |-> 0, body |-> ""]
    /\ poller = [polls |-> 0, calls |-> 0, returned |-> Undefined]

\* The poller in continuous mode on files it has scanned before: the poll
\* at start and a scheduled poll, which the schedule fires whether or not
\* the earlier one is over.
SpecPolling == InitScanned /\ [][NextPoller]_vars

(* ------------------- either server on the same files ------------------- *)

NextServers ==
    \/ DesignerEdits
    \/ Post
    \/ GetFileServed
    \/ GetFileReturns
    \/ GetFileThrows
    \/ SendReturns
    \/ StartPoll
    \/ GetFileMetadataReturns
    \/ PollThrows
    \/ PollSendReturns
    \/ GenerateChangelogReturns
    \/ PostReturns

\* A deployment of the program, which runs the webhook server or the poller.
SpecServers == Init /\ [][NextServers]_vars

(* --------------------- notions the claims are stated in ---------------- *)

Done == pc = "done"

\* The indexes of the records of the returned list.
Recs == 1..Len(changes)

PageIds(file) == {file.pages[p].id : p \in 1..Len(file.pages)}

PageOf(file, pid) ==
    file.pages[CHOOSE p \in 1..Len(file.pages) : file.pages[p].id = pid]

\* The pages both files have.
SharedPages == PageIds(oldFile) \cap PageIds(newFile)

\* The node ids of a page of a file.
IdsIn(file, pid) == NodeIds(PageOf(file, pid).children)

NodeIn(file, pid, id) == FindNode(PageOf(file, pid).children, id)

RECURSIVE CountNodes(_, _)
CountNodes(file, p) ==
    IF p = 0 THEN 0
    ELSE Len(FlatNodes(file.pages[p].children)) + CountNodes(file, p - 1)

\* A valid canonical document: page ids are unique and node ids are unique
\* within the document.
ValidFile(file) ==
    /\ Cardinality(PageIds(file)) = Len(file.pages)
    /\ Cardinality(FileNodeIds(file)) = CountNodes(file, Len(file.pages))

ValidInputs == ValidFile(oldFile) /\ ValidFile(newFile)

\* The records emitted for node `id` of page `pid`.
RecsFor(pid, id) ==
    {i \in Recs : origin[i].pageId = pid /\ origin[i].nodeId = id}

RECURSIVE Identical(_, _)
\* The same value: same type, same content, same key order.
Identical(a, b) ==
    /\ a.t = b.t
    /\ CASE a.t \in {"string", "number", "boolean"} -> a.v = b.v
         [] a.t = "array" ->
              /\ Len(a.v) = Len(b.v)
              /\ \A i \in 1..Len(a.v) : Identical(a.v[i], b.v[i])
         [] a.t = "object" ->
              /\ Len(a.v) = Len(b.v)
              /\ \A i \in 1..Len(a.v) :
                   a.v[i][1] = b.v[i][1] /\ Identical(a.v[i][2], b.v[i][2])
         [] OTHER -> TRUE

SameNodes(xs, ys) ==
    Len(xs) = Len(ys) /\ \A i \in 1..Len(xs) : Identical(xs[i], ys[i])

SameFile(f, g) ==
    /\ Len(f.pages) = Len(g.pages)
    /\ \A p \in 1..Len(f.pages) :
         /\ f.pages[p].id = g.pages[p].id
         /\ f.pages[p].name = g.pages[p].name
         /\ SameNodes(f.pages[p].children, g.pages[p].children)

RECURSIVE StructEq(_, _)
\* Structural equality: deep, order-sensitive for lists, key-set-and-value
\* sensitive (key order aside) for objects.
StructEq(a, b) ==
    /\ a.t = b.t
    /\ CASE a.t \in {"string", "number", "boolean"} -> a.v = b.v
         [] a.t = "array" ->
              /\ Len(a.v) = Len(b.v)
              /\ \A i \in 1..Len(a.v) : StructEq(a.v[i], b.v[i])
         [] a.t = "object" ->
              /\ {a.v[i][1] : i \in 1..Len(a.v)} = {b.v[i][1] : i \in 1..Len(b.v)}
              /\ \A i \in 1..Len(a.v) :
                   StructEq(a.v[i][2], Prop(b, a.v[i][1]))
         [] OTHER -> TRUE

\* The keys of a node that are compared as properties.
OwnKeys(node) ==
    {node.v[i][1] : i \in 1..Len(node.v)} \ {"id", "children"}

\* Two versions of a node with the same properties (children aside).
SameOwnProps(a, b) ==
    /\ OwnKeys(a) = OwnKeys(b)
    /\ \A k \in OwnKeys(a) : Identical(Prop(a, k), Prop(b, k))

\* The id of the parent of node `id` in a forest; "" for a top-level node.
ParentOf(nodes, id) ==
    IF \E i \in 1..Len(nodes) : IdOf(nodes[i]) = id THEN ""
    ELSE LET flat == FlatNodes(nodes)
         IN IdOf(flat[CHOOSE k \in 1..Len(flat) :
                   \E c \in 1..Len(ChildrenOf(flat[k])) :
                      IdOf(ChildrenOf(flat[k])[c]) = id])

\* The index of node `id` among its siblings.
SiblingIndex(nodes, id) ==
    LET sibs == Siblings(nodes, ParentOf(nodes, id))
    IN CHOOSE i \in 1..Len(sibs) : IdOf(sibs[i]) = id

\* Node `id` of a shared page sits under the same parent at another index.
MovedAmongSiblings(pid, id) ==
    LET olds == PageOf(oldFile, pid).children
        news == PageOf(newFile, pid).children
    IN /\ ParentOf(olds, id) = ParentOf(news, id)
       /\ SiblingIndex(olds, id) # SiblingIndex(news, id)

(* -------------------------------- claims -------------------------------- *)

\* C1. No-op diff: diffSnapshots(A, A) of a valid canonical document A returns
\* the empty list.
C1_NoOpDiff ==
    (Done /\ ValidInputs /\ SameFile(oldFile, newFile)) => Len(changes) = 0

\* A run that diffed an edited document against itself.
C1_Witness ==
    /\ Done /\ ValidInputs /\ SameFile(oldFile, newFile)
    /\ ~SameFile(newFile, BaseFile)
    /\ Len(changes) = 0

NodeRecordIn(recs, orig, kind, id) ==
    \E i \in 1..Len(recs) :
       /\ recs[i].kind = kind
       /\ recs[i].property = "node"
       /\ orig[i].nodeId = id

\* C2. Add/remove symmetry: diff(A, B) has a REMOVED node record for X exactly
\* when diff(B, A) has an ADDED node record for X, and likewise with ADDED and
\* REMOVED swapped.
C2_AddRemoveSymmetry ==
    Done =>
      \A rev \in {diffEmitted(newFile, oldFile)} :
        \A id \in FileNodeIds(oldFile) \cup FileNodeIds(newFile) :
          /\ NodeRecordIn(changes, origin, "REMOVED", id)
               <=> NodeRecordIn(ChangesOf(rev), OriginOf(rev), "ADDED", id)
          /\ NodeRecordIn(changes, origin, "ADDED", id)
               <=> NodeRecordIn(ChangesOf(rev), OriginOf(rev), "REMOVED", id)

\* A run that reported a removed node and an added node.
C2_Witness ==
    /\ Done
    /\ \E id \in FileNodeIds(oldFile) : NodeRecordIn(changes, origin, "REMOVED", id)
    /\ \E id \in FileNodeIds(newFile) : NodeRecordIn(changes, origin, "ADDED", id)

\* C3. Identity over position: a node of a shared page that keeps its id, its
\* properties and its parent and only sits at another sibling index has no
\* record at all.
C3_IdentityOverPosition ==
    (Done /\ ValidInputs) =>
      \A pid \in SharedPages :
        \A id \in IdsIn(oldFile, pid) \cap IdsIn(newFile, pid) :
          (/\ SameOwnProps(NodeIn(oldFile, pid, id), NodeIn(newFile, pid, id))
           /\ MovedAmongSiblings(pid, id))
          => RecsFor(pid, id) = {}

\* A run whose new document has an unchanged node at another sibling index,
\* while another node did change.
C3_Witness ==
    /\ Done /\ ValidInputs
    /\ Len(changes) > 0
    /\ \E pid \in SharedPages :
         \E id \in IdsIn(oldFile, pid) \cap IdsIn(newFile, pid) :
           /\ SameOwnProps(NodeIn(oldFile, pid, id), NodeIn(newFile, pid, id))
           /\ MovedAmongSiblings(pid, id)
           /\ RecsFor(pid, id) = {}

\* The name of a node when it has a non-empty one, else its id.
Label(node) ==
    IF HasKey(node, "name") /\ Prop(node, "name").t = "string"
       /\ Prop(node, "name").v # ""
    THEN Prop(node, "name").v
    ELSE IdOf(node)

\* The records about node `id` of page `pid` with the given property.
PropRecsFor(pid, id, property) ==
    {i \in RecsFor(pid, id) : changes[i].property = property}

\* C4. In a page both documents have: a node id only the old side has gets
\* exactly one record with property "node", a REMOVED one; an id only the new
\* side has gets exactly one, an ADDED one; an id on both sides gets none.  The
\* summary names the node (name, else id) and its type.
C4_NodePresence ==
    (Done /\ ValidInputs) =>
      \A pid \in SharedPages :
        /\ \A id \in IdsIn(oldFile, pid) \ IdsIn(newFile, pid) :
             /\ Cardinality(PropRecsFor(pid, id, "node")) = 1
             /\ \A i \in PropRecsFor(pid, id, "node") :
                  /\ changes[i].kind = "REMOVED"
                  /\ changes[i].summary =
                       "\"" \o Label(NodeIn(oldFile, pid, id)) \o "\" ("
                       \o Prop(NodeIn(oldFile, pid, id), "type").v \o ") removed"
        /\ \A id \in IdsIn(newFile, pid) \ IdsIn(oldFile, pid) :
             /\ Cardinality(PropRecsFor(pid, id, "node")) = 1
             /\ \A i \in PropRecsFor(pid, id, "node") :
                  /\ changes[i].kind = "ADDED"
                  /\ changes[i].summary =
                       "\"" \o Label(NodeIn(newFile, pid, id)) \o "\" ("
                       \o Prop(NodeIn(newFile, pid, id), "type").v \o ") added"
        /\ \A id \in IdsIn(oldFile, pid) \cap IdsIn(newFile, pid) :
             PropRecsFor(pid, id, "node") = {}

\* A run in which a nested node was removed, a node was added and a node is
\* on both sides.
C4_Witness ==
    /\ Done /\ ValidInputs
    /\ \E pid \in SharedPages :
         /\ \E id \in IdsIn(oldFile, pid) \ IdsIn(newFile, pid) :
              /\ ParentOf(PageOf(oldFile, pid).children, id) # ""
              /\ Cardinality(PropRecsFor(pid, id, "node")) = 1
         /\ \E id \in IdsIn(newFile, pid) \ IdsIn(oldFile, pid) :
              Cardinality(PropRecsFor(pid, id, "node")) = 1
         /\ IdsIn(oldFile, pid) \cap IdsIn(newFile, pid) # {}

\* Both versions of the node have a name, the names differ, and nothing else
\* of the node differs.
RenamedOnly(old, new) ==
    /\ HasKey(old, "name") /\ HasKey(new, "name")
    /\ ~Identical(Prop(old, "name"), Prop(new, "name"))
    /\ SameOwnProps(DeleteKey(old, "name"), DeleteKey(new, "name"))

\* C5. Rename: a node on both sides that differs only in `name` gets exactly
\* one record: MODIFIED, property "name", summary
\* Renamed: "<old>" → "<new>".
C5_RenameOnly ==
    (Done /\ ValidInputs) =>
      \A pid \in SharedPages :
        \A id \in IdsIn(oldFile, pid) \cap IdsIn(newFile, pid) :
          RenamedOnly(NodeIn(oldFile, pid, id), NodeIn(newFile, pid, id)) =>
            /\ Cardinality(RecsFor(pid, id)) = 1
            /\ \A i \in RecsFor(pid, id) :
                 /\ changes[i].kind = "MODIFIED"
                 /\ changes[i].property = "name"
                 /\ changes[i].summary =
                      "Renamed: \"" \o Prop(NodeIn(oldFile, pid, id), "name").v
                      \o "\" → \"" \o Prop(NodeIn(newFile, pid, id), "name").v
                      \o "\""

\* A run in which a node with other properties was only renamed.
C5_Witness ==
    /\ Done /\ ValidInputs
    /\ \E pid \in SharedPages :
         \E id \in IdsIn(oldFile, pid) \cap IdsIn(newFile, pid) :
           /\ RenamedOnly(NodeIn(oldFile, pid, id), NodeIn(newFile, pid, id))
           /\ HasKey(NodeIn(oldFile, pid, id), "fills")
           /\ Cardinality(RecsFor(pid, id)) = 1

\* The keys other than `name` that both versions of a node have.
CommonKeys(old, new) == (OwnKeys(old) \cap OwnKeys(new)) \ {"name"}

\* C6. For a node on both sides and a key (not id, children, name) both
\* versions have: exactly one record for the key, a MODIFIED one, when the two
\* values are structurally unequal, and none when they are structurally equal.
C6_ModifiedIffUnequal ==
    (Done /\ ValidInputs) =>
      \A pid \in SharedPages :
        \A id \in IdsIn(oldFile, pid) \cap IdsIn(newFile, pid) :
          \A key \in CommonKeys(NodeIn(oldFile, pid, id), NodeIn(newFile, pid, id)) :
            IF StructEq(Prop(NodeIn(oldFile, pid, id), key),
                        Prop(NodeIn(newFile, pid, id), key))
            THEN PropRecsFor(pid, id, key) = {}
            ELSE /\ Cardinality(PropRecsFor(pid, id, key)) = 1
                 /\ \A i \in PropRecsFor(pid, id, key) :
                      changes[i].kind = "MODIFIED"

\* A run in which one property changed its value and another only the order
\* of its keys.
C6_Witness ==
    /\ Done /\ ValidInputs
    /\ \E pid \in SharedPages :
         \E id \in IdsIn(oldFile, pid) \cap IdsIn(newFile, pid) :
           \E key \in CommonKeys(NodeIn(oldFile, pid, id), NodeIn(newFile, pid, id)) :
             /\ ~StructEq(Prop(NodeIn(oldFile, pid, id), key),
                          Prop(NodeIn(newFile, pid, id), key))
             /\ Cardinality(PropRecsFor(pid, id, key)) = 1
    /\ \E pid \in SharedPages :
         \E id \in IdsIn(oldFile, pid) \cap IdsIn(newFile, pid) :
           \E key \in CommonKeys(NodeIn(oldFile, pid, id), NodeIn(newFile, pid, id)) :
             /\ StructEq(Prop(NodeIn(oldFile, pid, id), key),
                         Prop(NodeIn(newFile, pid, id), key))
             /\ ~Identical(Prop(NodeIn(oldFile, pid, id), key),
                           Prop(NodeIn(newFile, pid, id), key))
             /\ PropRecsFor(pid, id, key) = {}

\* C7. For a node on both sides and a key other than id, children and name: a
\* key only the old node has gets exactly one record, REMOVED, with summary
\* "<key> removed (was: <formatted old>)"; a key only the new node has gets
\* exactly one record, ADDED, with summary "<key> added: <formatted new>".
C7_PropertyAddedRemoved ==
    (Done /\ ValidInputs) =>
      \A pid \in SharedPages :
        \A id \in IdsIn(oldFile, pid) \cap IdsIn(newFile, pid) :
          /\ \A key \in (OwnKeys(NodeIn(oldFile, pid, id))
                          \ OwnKeys(NodeIn(newFile, pid, id))) \ {"name"} :
               /\ Cardinality(PropRecsFor(pid, id, key)) = 1
               /\ \A i \in PropRecsFor(pid, id, key) :
                    /\ changes[i].kind = "REMOVED"
                    /\ changes[i].summary =
                         key \o " removed (was: "
                         \o formatValue(Prop(NodeIn(oldFile, pid, id), key)) \o ")"
          /\ \A key \in (OwnKeys(NodeIn(newFile, pid, id))
                          \ OwnKeys(NodeIn(oldFile, pid, id))) \ {"name"} :
               /\ Cardinality(PropRecsFor(pid, id, key)) = 1
               /\ \A i \in PropRecsFor(pid, id, key) :
                    /\ changes[i].kind = "ADDED"
                    /\ changes[i].summary =
                         key \o " added: "
                         \o formatValue(Prop(NodeIn(newFile, pid, id), key))

\* A run in which a node lost one property and gained another.
C7_Witness ==
    /\ Done /\ ValidInputs
    /\ \E pid \in SharedPages :
         \E id \in IdsIn(oldFile, pid) \cap IdsIn(newFile, pid) :
           /\ \E key \in (OwnKeys(NodeIn(oldFile, pid, id))
                           \ OwnKeys(NodeIn(newFile, pid, id))) \ {"name"} :
                Cardinality(PropRecsFor(pid, id, key)) = 1
           /\ \E key \in (OwnKeys(NodeIn(newFile, pid, id))
                           \ OwnKeys(NodeIn(oldFile, pid, id))) \ {"name"} :
                Cardinality(PropRecsFor(pid, id, key)) = 1

\* The records emitted for page `pid`, its own and those of its nodes.
PageRecs(pid) == {i \in Recs : origin[i].pageId = pid}

\* C8. Page-level diff: a page only the new document has gets exactly one
\* record, ADDED with property "page"; a page only the old document has gets
\* exactly one, REMOVED with property "page"; no record is emitted for a node
\* or property inside such a page.
C8_PageAddedRemoved ==
    (Done /\ ValidInputs) =>
      /\ \A pid \in PageIds(newFile) \ PageIds(oldFile) :
           /\ Cardinality(PageRecs(pid)) = 1
           /\ \A i \in PageRecs(pid) :
                /\ changes[i].kind = "ADDED"
                /\ changes[i].property = "page"
                /\ origin[i].nodeId = ""
      /\ \A pid \in PageIds(oldFile) \ PageIds(newFile) :
           /\ Cardinality(PageRecs(pid)) = 1
           /\ \A i \in PageRecs(pid) :
                /\ changes[i].kind = "REMOVED"
                /\ changes[i].property = "page"
                /\ origin[i].nodeId = ""

\* A run in which a page holding a node was added and another page removed.
C8_Witness ==
    /\ Done /\ ValidInputs
    /\ \E pid \in PageIds(newFile) \ PageIds(oldFile) :
         /\ IdsIn(newFile, pid) # {}
         /\ Cardinality(PageRecs(pid)) = 1
    /\ \E pid \in PageIds(oldFile) \ PageIds(newFile) :
         Cardinality(PageRecs(pid)) = 1

\* C9. Every record carries `pageId`, the id of its page, and every record
\* about a node or a node's property carries `nodeId`, the id of that node.
C9_RecordsCarryIds ==
    Done =>
      \A i \in Recs :
        /\ "pageId" \in DOMAIN changes[i]
        /\ changes[i].pageId = origin[i].pageId
        /\ changes[i].property # "page" =>
             /\ "nodeId" \in DOMAIN changes[i]
             /\ changes[i].nodeId = origin[i].nodeId

RECURSIVE PathOf(_, _)
\* The display path of node `id` in a forest: the labels of its ancestors and
\* its own, from the top, joined with " / ".
PathOf(nodes, id) ==
    IF ParentOf(nodes, id) = "" THEN Label(FindNode(nodes, id))
    ELSE PathOf(nodes, ParentOf(nodes, id)) \o " / " \o Label(FindNode(nodes, id))

\* C10. Display path: the path of a REMOVED node record is the node's chain of
\* name-or-id labels in the OLD tree; the path of every other record about a
\* node (ADDED node, property record, rename) is its chain in the NEW tree.
C10_DisplayPath ==
    (Done /\ ValidInputs) =>
      \A i \in Recs :
        origin[i].nodeId # "" =>
          IF changes[i].property = "node" /\ changes[i].kind = "REMOVED"
          THEN changes[i].path =
                 PathOf(PageOf(oldFile, origin[i].pageId).children, origin[i].nodeId)
          ELSE changes[i].path =
                 PathOf(PageOf(newFile, origin[i].pageId).children, origin[i].nodeId)

\* A run with a property record or rename of a nested node whose path differs
\* between the old and the new tree, and one with a removed nested node.
C10_Witness ==
    /\ Done /\ ValidInputs
    /\ \E i \in Recs :
         /\ origin[i].nodeId # ""
         /\ changes[i].property # "node"
         /\ ParentOf(PageOf(newFile, origin[i].pageId).children,
                     origin[i].nodeId) # ""
         /\ PathOf(PageOf(oldFile, origin[i].pageId).children, origin[i].nodeId)
              # PathOf(PageOf(newFile, origin[i].pageId).children, origin[i].nodeId)
    /\ \E i \in Recs :
         /\ changes[i].property = "node" /\ changes[i].kind = "REMOVED"
         /\ ParentOf(PageOf(oldFile, origin[i].pageId).children,
                     origin[i].nodeId) # ""


\* Some page of the file holds two nodes with the same id.
DuplicateIdInPage(file) ==
    \E p \in 1..Len(file.pages) :
       Cardinality(NodeIds(file.pages[p].children))
         # Len(FlatNodes(file.pages[p].children))

\* C11. Duplicate node ids are fatal: when a page of either input holds two
\* nodes with the same id, the diff fails as a whole and no change list is
\* returned.
C11_DuplicateIdsFatal ==
    (DuplicateIdInPage(oldFile) \/ DuplicateIdInPage(newFile)) => ~Done


RECURSIVE AbsentChildren(_)
\* The forest with every empty `children` list replaced by an absent key.
AbsentChildren(nodes) ==
    [i \in 1..Len(nodes) |->
       IF Len(ChildrenOf(nodes[i])) = 0 THEN DeleteKey(nodes[i], "children")
       ELSE SetKey(nodes[i], "children",
                   Arr(AbsentChildren(ChildrenOf(nodes[i]))))]

RECURSIVE ListedChildren(_)
\* The forest with every absent `children` key replaced by an empty list.
ListedChildren(nodes) ==
    [i \in 1..Len(nodes) |->
       SetKey(nodes[i], "children", Arr(ListedChildren(ChildrenOf(nodes[i]))))]

\* The file with its forests mapped by F.
MapForests(file, F(_)) ==
    [file EXCEPT !.pages =
       [p \in 1..Len(file.pages) |->
          [file.pages[p] EXCEPT !.children = F(file.pages[p].children)]]]

\* Some node of the file has an empty `children` list.
HasEmptyList(file) ==
    \E p \in 1..Len(file.pages) :
       \E i \in 1..Len(FlatNodes(file.pages[p].children)) :
          LET node == FlatNodes(file.pages[p].children)[i]
          IN HasKey(node, "children") /\ Len(ChildrenOf(node)) = 0

\* C13. The Differ treats an absent `children` key and an empty `children`
\* list alike: the diff of two documents equals the diff of the same documents
\* with every empty list made absent, and the diff with every absent key made
\* an empty list.
C13_AbsentOrEmptyChildren ==
    (Done /\ ValidInputs) =>
      /\ changes = diffSnapshots(MapForests(oldFile, AbsentChildren),
                                 MapForests(newFile, AbsentChildren))
      /\ changes = diffSnapshots(MapForests(oldFile, ListedChildren),
                                 MapForests(newFile, ListedChildren))
      /\ changes = diffSnapshots(MapForests(oldFile, ListedChildren),
                                 MapForests(newFile, AbsentChildren))

\* A run with records in which one side has an empty `children` list on a
\* node where the other side has no such key.
C13_Witness ==
    /\ Done /\ ValidInputs
    /\ Len(changes) > 0
    /\ HasEmptyList(oldFile) # HasEmptyList(newFile)
    /\ \E pid \in SharedPages :
         \E id \in IdsIn(oldFile, pid) \cap IdsIn(newFile, pid) :
           HasKey(NodeIn(oldFile, pid, id), "children")
             # HasKey(NodeIn(newFile, pid, id), "children")


\* The sixteen uppercase hex digits.
UpperHexDigits ==
    << "0", "1", "2", "3", "4", "5", "6", "7",
       "8", "9", "A", "B", "C", "D", "E", "F" >>

\* Two uppercase hex digits for m in 0..255.
Hex2(m) == UpperHexDigits[(m \div 16) + 1] \o UpperHexDigits[(m % 16) + 1]

\* round(255 x channel): the integer m with m - 1/2 <= 255 x channel < m + 1/2.
Round255(val) ==
    CHOOSE m \in -128..511 :
       /\ (2 * m - 1) * Den(val) <= 510 * val.v
       /\ 510 * val.v < (2 * m + 1) * Den(val)

\* Whether a channel value lies in [0, 1].
InUnit(val) == 0 <= val.v /\ val.v <= Den(val)

\* The raw color of the node given to filterNode.
RawFillColor == Prop(Prop(rawNode, "fills").v[1], "color")

\* C14. RGBA->hex: for channels r, g, b in [0,1] the rendered color is '#'
\* and two uppercase hex digits per channel, in the order R, G, B, each
\* encoding round(255 x channel); alpha is not part of the string.
C14_RgbaToHex ==
    (Done /\ InUnit(Prop(RawFillColor, "r")) /\ InUnit(Prop(RawFillColor, "g"))
          /\ InUnit(Prop(RawFillColor, "b"))) =>
      \A expected \in {"#" \o Hex2(Round255(Prop(RawFillColor, "r")))
                           \o Hex2(Round255(Prop(RawFillColor, "g")))
                           \o Hex2(Round255(Prop(RawFillColor, "b")))} :
        /\ Prop(Prop(filteredNode, "fills").v[1], "color") = Str(expected)
        /\ Prop(filteredNode, "backgroundColor") = Str(expected)

\* The color (0.2, 0.4, 0.9) with an alpha of one half was rendered #3366E6.
C14_Witness ==
    /\ Done
    /\ 5 * Prop(RawFillColor, "r").v = Den(Prop(RawFillColor, "r"))
    /\ 5 * Prop(RawFillColor, "g").v = 2 * Den(Prop(RawFillColor, "g"))
    /\ 10 * Prop(RawFillColor, "b").v = 9 * Den(Prop(RawFillColor, "b"))
    /\ Prop(RawFillColor, "a") = Frac(1, 2)
    /\ Prop(Prop(filteredNode, "fills").v[1], "color") = Str("#3366E6")

\* A number clamped to [0, 255].
Clamp255(m) == IF m < 0 THEN 0 ELSE IF m > 255 THEN 255 ELSE m

\* C15. The conversion clamps each scaled and rounded channel to [0,255]: for
\* every source color, channels below 0 or above 1 included, every color
\* string of the canonical node is '#' and exactly six uppercase hex digits.
C15_ClampedHex ==
    Done =>
      \A expected \in {"#" \o Hex2(Clamp255(Round255(Prop(RawFillColor, "r"))))
                           \o Hex2(Clamp255(Round255(Prop(RawFillColor, "g"))))
                           \o Hex2(Clamp255(Round255(Prop(RawFillColor, "b"))))} :
        /\ Prop(Prop(filteredNode, "fills").v[1], "color") = Str(expected)
        /\ Prop(filteredNode, "backgroundColor") = Str(expected)


\* The default-omittable properties, each with its default.
Defaults ==
    << <<"visible", Bool(TRUE)>>, <<"opacity", Num(1)>>,
       <<"strokeWeight", Num(0)>>, <<"cornerRadius", Num(0)>>,
       <<"itemSpacing", Num(0)>>,
       <<"paddingLeft", Num(0)>>, <<"paddingRight", Num(0)>>,
       <<"paddingTop", Num(0)>>, <<"paddingBottom", Num(0)>>,
       <<"layoutMode", Str("NONE")>> >>

\* The raw nodes of the tree given to filterNode.
RawNodes == FlatNodes(<< rawNode >>)

RECURSIVE CanonicalOf(_, _, _)
\* The canonical node that answers raw node `id` in the result: the node at
\* the same position of the tree.
CanonicalOf(raws, canons, id) ==
    IF Len(raws) = 0 \/ Len(canons) = 0 THEN Undefined
    ELSE IF IdOf(Head(raws)) = id THEN Head(canons)
    ELSE LET below == CanonicalOf(ChildrenOf(Head(raws)),
                                  ChildrenOf(Head(canons)), id)
         IN IF below # Undefined THEN below
            ELSE CanonicalOf(Tail(raws), Tail(canons), id)

\* C16. Default omission: for every raw node n and default-omittable property
\* p, normalize(n with p at its default) = normalize(n without p); a
\* non-default value of p is copied unchanged into the canonical node.
C16_DefaultOmission ==
    Done =>
      \A i \in 1..Len(RawNodes) : \A d \in 1..Len(Defaults) :
        LET n == RawNodes[i]
            p == Defaults[d][1]
        IN /\ filterNode(SetKey(n, p, Defaults[d][2])) = filterNode(DeleteKey(n, p))
           /\ (HasKey(n, p) /\ Prop(n, p) = Defaults[d][2]) =>
                ~HasKey(CanonicalOf(<< rawNode >>, << filteredNode >>, IdOf(n)), p)
           /\ (HasKey(n, p) /\ Prop(n, p) # Defaults[d][2]) =>
                Prop(CanonicalOf(<< rawNode >>, << filteredNode >>, IdOf(n)), p)
                  = Prop(n, p)

\* A run on a node with opacity 1 and a non-default cornerRadius whose child
\* has a default layoutMode and whose own layoutMode is not the default.
C16_Witness ==
    /\ Done
    /\ Prop(rawNode, "opacity") = Num(1)
    /\ ~HasKey(filteredNode, "opacity")
    /\ Prop(filteredNode, "cornerRadius") = Num(8)
    /\ Prop(rawNode, "layoutMode") = Str("HORIZONTAL")
    /\ Prop(filteredNode, "layoutMode") = Str("HORIZONTAL")
    /\ \E i \in 1..Len(RawNodes) :
         /\ Prop(RawNodes[i], "layoutMode") = Str("NONE")
         /\ ~HasKey(CanonicalOf(<< rawNode >>, << filteredNode >>,
                                IdOf(RawNodes[i])), "layoutMode")


\* The allow-list of raw properties: identity, visual, text, layout,
\* reference, children.
AllowList ==
    {"id", "name", "type", "visible", "opacity",
     "fills", "strokes", "strokeWeight", "cornerRadius", "backgroundColor",
     "characters", "fontSize", "fontFamily", "fontWeight",
     "textAlignHorizontal", "lineHeightPx", "letterSpacing",
     "absoluteBoundingBox",
     "layoutMode", "primaryAxisAlignItems", "counterAxisAlignItems",
     "itemSpacing", "paddingLeft", "paddingRight", "paddingTop",
     "paddingBottom", "componentId", "children"}

\* The keys a canonical node may have: the allow-list, where a bounding box
\* appears as `bounds`.
AllowedKeys == AllowList \cup {"bounds"}

\* Whether a raw key is on the allow-list.
OnAllowList(key) == key \in AllowList

RECURSIVE WithoutOutside(_)
\* The raw node with every property outside the allow-list removed, on the
\* node and on its descendants.
WithoutOutside(node) ==
    LET kept == Obj(SelectSeq(node.v, LAMBDA pr : OnAllowList(pr[1])))
    IN IF HasKey(node, "children") /\ Prop(node, "children").t = "array"
       THEN SetKey(kept, "children",
                Arr([i \in 1..Len(ChildrenOf(node)) |->
                       WithoutOutside(ChildrenOf(node)[i])]))
       ELSE kept

RECURSIVE WithOtherOutside(_)
\* The raw node with other properties outside the allow-list: those it has
\* are given another value and an `isMask` flag is added, on the node and on
\* its descendants.
WithOtherOutside(node) ==
    LET other == Obj([i \in 1..Len(node.v) |->
                        IF OnAllowList(node.v[i][1]) THEN node.v[i]
                        ELSE <<node.v[i][1], Str("other")>>]
                     \o << <<"isMask", Bool(TRUE)>> >>)
    IN IF HasKey(node, "children") /\ Prop(node, "children").t = "array"
       THEN SetKey(other, "children",
                Arr([i \in 1..Len(ChildrenOf(node)) |->
                       WithOtherOutside(ChildrenOf(node)[i])]))
       ELSE other

\* C17. Allow-list: every key of every canonical node is on the allow-list
\* (absoluteBoundingBox appearing as bounds); raw nodes that differ only in
\* properties outside the allow-list normalize to equal canonical nodes, and
\* the diff of their documents is empty.
C17_AllowList ==
    Done =>
      /\ \A i \in 1..Len(FlatNodes(<< filteredNode >>)) :
           \A k \in 1..Len(FlatNodes(<< filteredNode >>)[i].v) :
             FlatNodes(<< filteredNode >>)[i].v[k][1] \in AllowedKeys
      /\ \A without \in {filterFile(RawResponse(WithoutOutside(rawNode)))} :
           \A other \in {filterFile(RawResponse(WithOtherOutside(rawNode)))} :
             /\ without.pages[1].children = << filteredNode >>
             /\ other.pages[1].children = << filteredNode >>
             /\ diffSnapshots(without, other) = <<>>

\* A run on a node that has properties outside the allow-list, on itself and
\* on its child, and whose bounding box became `bounds`.
C17_Witness ==
    /\ Done
    /\ Prop(rawNode, "blendMode") = Str("MULTIPLY")
    /\ HasKey(rawNode, "locked")
    /\ \E i \in 1..Len(ChildrenOf(rawNode)) :
         HasKey(ChildrenOf(rawNode)[i], "blendMode")
    /\ WithoutOutside(rawNode) # rawNode
    /\ HasKey(filteredNode, "bounds")
    /\ ~HasKey(filteredNode, "blendMode") /\ ~HasKey(filteredNode, "locked")


RECURSIVE SameShape(_, _)
\* The canonical node has the id of the raw node and, for a raw node with
\* children, the normalizations of the children in the same number and
\* order; for a raw node with no children or an empty list, no `children` key.
SameShape(raw, canon) ==
    /\ HasKey(canon, "id")
    /\ Prop(canon, "id") = Prop(raw, "id")
    /\ IF Len(ChildrenOf(raw)) = 0 THEN ~HasKey(canon, "children")
       ELSE /\ Prop(canon, "children").t = "array"
            /\ Len(ChildrenOf(canon)) = Len(ChildrenOf(raw))
            /\ \A i \in 1..Len(ChildrenOf(raw)) :
                 /\ ChildrenOf(canon)[i] = filterNode(ChildrenOf(raw)[i])
                 /\ SameShape(ChildrenOf(raw)[i], ChildrenOf(canon)[i])

\* C18. Normalization preserves identity and tree shape: the canonical node
\* has the raw node's id; its children are the normalizations of the raw
\* children, same count and order, recursively; a raw node with no children
\* or an empty children list yields no `children` key.
C18_IdentityAndShape == Done => SameShape(rawNode, filteredNode)

\* A run on a node with several children, one with an empty children list
\* and one with a child of its own.
C18_Witness ==
    /\ Done
    /\ Len(ChildrenOf(rawNode)) > 1
    /\ \E i \in 1..Len(ChildrenOf(rawNode)) :
         Len(ChildrenOf(ChildrenOf(filteredNode)[i])) > 0
    /\ \E i \in 1..Len(ChildrenOf(rawNode)) :
         /\ HasKey(ChildrenOf(rawNode)[i], "children")
         /\ ~HasKey(ChildrenOf(filteredNode)[i], "children")
    /\ SameShape(rawNode, filteredNode)


(* ------------------------- C19: fills and strokes ----------------------- *)

\* The keys whose value is a list of paints.
PaintKeys == {"fills", "strokes"}

\* The raw list of paints under `key`, empty when the key is absent.
RawPaints(node, key) ==
    IF Prop(node, key).t = "array" THEN Prop(node, key).v ELSE <<>>

\* The raw paint is not explicitly hidden.
NotHidden(f) == ~(HasKey(f, "visible") /\ Prop(f, "visible") = Bool(FALSE))

RECURSIVE Survivors(_)
\* The raw paints that are not explicitly hidden, in their original order.
Survivors(paints) ==
    IF Len(paints) = 0 THEN <<>>
    ELSE (IF NotHidden(Head(paints)) THEN << Head(paints) >> ELSE <<>>)
         \o Survivors(Tail(paints))

\* C19. Fills and strokes filtering: the canonical fills (resp. strokes) list
\* answers exactly the raw entries whose visible flag is not explicitly
\* false, in their original order; when no entry survives, or the raw list is
\* empty or absent, the key is absent from the canonical node.
C19_FillsFiltering ==
    Done =>
      \A i \in 1..Len(RawNodes) : \A key \in PaintKeys :
        \A canon \in {CanonicalOf(<< rawNode >>, << filteredNode >>,
                                  IdOf(RawNodes[i]))} :
        \A kept \in {Survivors(RawPaints(RawNodes[i], key))} :
          IF Len(kept) = 0 THEN ~HasKey(canon, key)
          ELSE /\ Prop(canon, key).t = "array"
               /\ Len(Prop(canon, key).v) = Len(kept)
               /\ \A n \in 1..Len(kept) :
                    /\ Prop(Prop(canon, key).v[n], "type") = Prop(kept[n], "type")
                    /\ HasKey(kept[n], "color") =>
                         Prop(Prop(canon, key).v[n], "color")
                           = rgbaToHex(Prop(kept[n], "color"))

\* A hidden paint between two shown ones is dropped and the order is kept; a
\* node whose only paint is hidden has no fills key.
C19_Witness ==
    /\ Done
    /\ Len(RawPaints(rawNode, "fills")) = 3
    /\ ~NotHidden(RawPaints(rawNode, "fills")[2])
    /\ Len(Prop(filteredNode, "fills").v) = 2
    /\ Prop(Prop(filteredNode, "fills").v[1], "color") = Str("#FF0000")
    /\ Prop(Prop(filteredNode, "fills").v[2], "color") = Str("#00FF00")
    /\ ~HasKey(filteredNode, "strokes")
    /\ \E i \in 1..Len(RawNodes) :
         /\ Len(RawPaints(RawNodes[i], "fills")) > 0
         /\ ~HasKey(CanonicalOf(<< rawNode >>, << filteredNode >>,
                                IdOf(RawNodes[i])), "fills")


(* --------------------- C20: the shape of a paint entry ------------------ *)

\* The gradient paint types of the Figma API.
GradientTypes ==
    {Str("GRADIENT_LINEAR"), Str("GRADIENT_RADIAL"),
     Str("GRADIENT_ANGULAR"), Str("GRADIENT_DIAMOND")}

\* The keys the canonical entry of raw paint f is to have.
EntryKeys(f) ==
    {"type"}
    \cup (IF HasKey(f, "color") THEN {"color"} ELSE {})
    \cup (IF HasKey(f, "opacity") /\ Prop(f, "opacity") # Num(1)
          THEN {"opacity"} ELSE {})
    \cup (IF Prop(f, "type") \in GradientTypes /\ HasKey(f, "gradientStops")
          THEN {"stops"} ELSE {})
    \cup (IF Prop(f, "type") = Str("IMAGE")
          THEN {"imageRef", "scaleMode"} ELSE {})

\* The canonical entry c carries the values of raw paint f under its keys.
EntryValues(f, c) ==
    /\ Prop(c, "type") = Prop(f, "type")
    /\ HasKey(c, "color") => Prop(c, "color") = rgbaToHex(Prop(f, "color"))
    /\ HasKey(c, "opacity") => Prop(c, "opacity") = Prop(f, "opacity")
    /\ HasKey(c, "stops") =>
         /\ Len(Prop(c, "stops").v) = Len(Prop(f, "gradientStops").v)
         /\ \A j \in 1..Len(Prop(c, "stops").v) :
              Prop(c, "stops").v[j]
                = Obj(<< <<"color",
                           rgbaToHex(Prop(Prop(f, "gradientStops").v[j], "color"))>>,
                         <<"pos", Prop(Prop(f, "gradientStops").v[j], "position")>> >>)
    /\ HasKey(c, "imageRef") => Prop(c, "imageRef") = Prop(f, "imageRef")
    /\ HasKey(c, "scaleMode") => Prop(c, "scaleMode") = Prop(f, "scaleMode")

\* C20. Each surviving fill/stroke entry keeps only: type; color as hex when
\* the source has a color; opacity when present and not 1; the gradient stops
\* (colors as hex, with positions) when the entry is of a gradient type; the
\* image reference and scale mode when the entry is of the image type.
C20_EntryShape ==
    Done =>
      \A key \in PaintKeys :
        \A kept \in {Survivors(RawPaints(rawNode, key))} :
          \A n \in 1..Len(kept) :
            \A c \in {Prop(filteredNode, key).v[n]} :
              /\ {Keys(c)[k] : k \in 1..Len(c.v)} = EntryKeys(kept[n])
              /\ EntryValues(kept[n], c)

\* The same statement for the paints that are not of the two gradient types
\* simplifyFills leaves without stops.
C20_EntryShapeButOtherGradients ==
    Done =>
      \A key \in PaintKeys :
        \A kept \in {Survivors(RawPaints(rawNode, key))} :
          \A n \in 1..Len(kept) :
            Prop(kept[n], "type")
                \notin {Str("GRADIENT_ANGULAR"), Str("GRADIENT_DIAMOND")} =>
              \A c \in {Prop(filteredNode, key).v[n]} :
                /\ {Keys(c)[k] : k \in 1..Len(c.v)} = EntryKeys(kept[n])
                /\ EntryValues(kept[n], c)


(* ------------------------------ C12: purity ----------------------------- *)

\* What the call returns when it is the only call made.
Alone(call) ==
    IF call.op = "diff" THEN << diffSnapshots(call.input[1], call.input[2]) >>
    ELSE << filterNode(call.input[1]) >>

\* The calls made of one function.
CallsOf(op) == {call \in calls : call.op = op}

Nearest(val, r) ==
    /\ r.t = "number" /\ Den(r) = 1
    /\ 2 * (r.v * Den(val) - val.v) <= Den(val)
    /\ 2 * (r.v * Den(val) - val.v) > 0 - Den(val)

\* The bounding box of the raw node.
RawBounds == Prop(rawNode, "absoluteBoundingBox")

\* The canonical node has `bounds` = {x, y, w, h}, the rounded raw box.
RoundedBounds ==
    /\ HasKey(filteredNode, "bounds")
    /\ Keys(Prop(filteredNode, "bounds")) = <<"x", "y", "w", "h">>
    /\ Nearest(Prop(RawBounds, "x"), Prop(Prop(filteredNode, "bounds"), "x"))
    /\ Nearest(Prop(RawBounds, "y"), Prop(Prop(filteredNode, "bounds"), "y"))
    /\ Nearest(Prop(RawBounds, "width"), Prop(Prop(filteredNode, "bounds"), "w"))
    /\ Nearest(Prop(RawBounds, "height"), Prop(Prop(filteredNode, "bounds"), "h"))

\* C21 as stated. Geometry: a raw bounding box {x, y, width, height} appears
\* in the canonical node as bounds = {x, y, w, h} with each field rounded to
\* the nearest integer; the raw key absoluteBoundingBox never appears in the
\* canonical node.
C21_RawKeyNeverAppears ==
    Done =>
      /\ RawBounds.t = "object" => RoundedBounds
      /\ ~HasKey(filteredNode, "absoluteBoundingBox")

\* C21, amended. Geometry: a raw bounding box {x, y, width, height} appears
\* in the canonical node as bounds = {x, y, w, h} with each field rounded to
\* the nearest integer (a half going up), and then the raw key
\* absoluteBoundingBox does not appear; an absoluteBoundingBox that is null
\* is copied unchanged under its raw key, and an absent one gives neither
\* key.
C21_Geometry ==
    Done =>
      IF RawBounds.t = "object"
      THEN RoundedBounds /\ ~HasKey(filteredNode, "absoluteBoundingBox")
      ELSE /\ ~HasKey(filteredNode, "bounds")
           /\ HasKey(filteredNode, "absoluteBoundingBox")
                <=> HasKey(rawNode, "absoluteBoundingBox")
           /\ Prop(filteredNode, "absoluteBoundingBox") = RawBounds

\* A box with halves on both sides of zero was rounded.
C21_Witness ==
    /\ Done
    /\ RawBounds.t = "object"
    /\ Prop(RawBounds, "x") = Frac(0 - 5, 2)
    /\ Prop(Prop(filteredNode, "bounds"), "x") = Num(0 - 2)
    /\ Prop(RawBounds, "y") = Frac(1049, 100)
    /\ Prop(Prop(filteredNode, "bounds"), "y") = Num(10)
    /\ Prop(RawBounds, "width") = Frac(21, 2)
    /\ Prop(Prop(filteredNode, "bounds"), "w") = Num(11)
    /\ ~HasKey(filteredNode, "absoluteBoundingBox")


(* ----------------------- C22: formatting a value ------------------------ *)

\* The textual form of a number, a boolean or a string; "undefined" for an
\* absent one.
TextOf(val) ==
    CASE val.t = "number" -> IntToString(val.v)
      [] val.t = "boolean" -> (IF val.v THEN "true" ELSE "false")
      [] val.t = "string" -> val.v
      [] OTHER -> "undefined"

\* The color string of a list element, empty when it has none.
ColorOf(element) ==
    IF element.t = "object" /\ HasKey(element, "color")
    THEN Prop(element, "color").v ELSE ""

RECURSIVE CommaJoined(_)
\* The texts joined with ", ".
CommaJoined(texts) ==
    IF Len(texts) = 0 THEN ""
    ELSE IF Len(texts) = 1 THEN texts[1]
    ELSE texts[1] \o ", " \o CommaJoined(Tail(texts))

\* The text the formatting rule gives for a value.
Rendered(val) ==
    CASE val.t \in {"null", "undefined"} -> "none"
      [] val.t \in {"string", "number", "boolean"} -> TextOf(val)
      [] val.t = "array" ->
           IF Len(val.v) > 0 /\ val.v[1].t = "object" /\ HasKey(val.v[1], "color")
           THEN CommaJoined([i \in 1..Len(val.v) |-> ColorOf(val.v[i])])
           ELSE Stringify(val)
      [] val.t = "object" ->
           IF HasKey(val, "w") /\ HasKey(val, "h")
           THEN TextOf(Prop(val, "w")) \o "×" \o TextOf(Prop(val, "h"))
                \o " at (" \o TextOf(Prop(val, "x")) \o ","
                \o TextOf(Prop(val, "y")) \o ")"
           ELSE Stringify(val)

\* C22. Summary value formatting: a string renders verbatim; a number or
\* boolean as its textual form; a list whose first element has a color as
\* the comma-joined color strings of its elements; an object with w and h as
\* "<w>×<h> at (<x>,<y>)"; any other list or object as its serialized text;
\* null or absent as "none".  A fills change from [{color: "#3366E6"}] to
\* [{color: "#FF0000"}] has summary "fills: #3366E6 → #FF0000".
C22_FormatValue ==
    /\ Done => filteredNode = Str(Rendered(rawNode))
    /\ modifiedPropertyRecord("fills",
           Arr(<< Obj(<< <<"color", Str("#3366E6")>> >>) >>),
           Arr(<< Obj(<< <<"color", Str("#FF0000")>> >>) >>),
           "Header", "Home").summary = "fills: #3366E6 → #FF0000"

\* A list of two colors was formatted.
C22_Witness ==
    /\ Done
    /\ rawNode.t = "array"
    /\ Len(rawNode.v) = 2
    /\ filteredNode = Str("#FF0000, #3366E6")


(* ------------------------ C23: the compact report ----------------------- *)

RECURSIVE PagesInOrder(_, _)
\* The distinct pages of the records, in order of first appearance.
PagesInOrder(cs, seen) ==
    IF Len(cs) = 0 THEN seen
    ELSE PagesInOrder(Tail(cs),
             IF \E i \in 1..Len(seen) : seen[i] = Head(cs).page
             THEN seen ELSE Append(seen, Head(cs).page))

\* The prefix of the line of a record.
Prefix(c) ==
    CASE c.kind = "ADDED" -> "+" [] c.kind = "REMOVED" -> "-"
      [] c.kind = "MODIFIED" -> "~"

\* The block of one page: its header, then one line per change of the page,
\* in input order.
PageBlock(cs, page) ==
    LET own == SelectSeq(cs, LAMBDA c : c.page = page)
    IN << "[" \o page \o "]" >>
       \o [i \in 1..Len(own) |->
             "  " \o Prefix(own[i]) \o " " \o own[i].path \o ": "
             \o own[i].summary]

RECURSIVE Blocks(_, _)
\* The blocks of the pages, one after the other.
Blocks(cs, pages) ==
    IF Len(pages) = 0 THEN <<>>
    ELSE PageBlock(cs, Head(pages)) \o Blocks(cs, Tail(pages))

\* C23. formatChangesForLLM returns exactly "No changes detected." for an
\* empty change list; otherwise it emits one "[<page>]" header per distinct
\* page, in order of first appearance, followed by one line per change of
\* that page in input order, each prefixed with '+' for ADDED, '-' for
\* REMOVED and '~' for MODIFIED and containing the record's path and summary;
\* no change is dropped or duplicated.
C23_CompactReport ==
    Done =>
      IF Len(changes) = 0 THEN report.text = "No changes detected."
      ELSE /\ report.lines = Blocks(changes, PagesInOrder(changes, <<>>))
           /\ Len(report.lines)
                = Len(changes) + Len(PagesInOrder(changes, <<>>))
           /\ report.text = Join(report.lines, "\n")
           /\ report.text # "No changes detected."

\* Three changes whose pages alternate were formatted: two headers, the two
\* changes of the first page together.
C23_Witness ==
    /\ Done
    /\ Len(changes) = 3
    /\ changes[1].page = changes[3].page
    /\ changes[1].page # changes[2].page
    /\ changes[1] # changes[3]
    /\ Len(report.lines) = 5
    /\ report.lines[1] = "[Home Page]"
    /\ report.lines[2] = "  ~ Header / Login Button: fills: #3366E6 → #FF0000"
    /\ report.lines[3] = "  + Header / New Badge: \"New Badge\" (FRAME) added"
    /\ report.lines[4] = "[About]"


(* ------------------------ C24: the order of records --------------------- *)

\* The position of page `pid` among the pages of a file.
PageRank(file, pid) ==
    CHOOSE p \in 1..Len(file.pages) : file.pages[p].id = pid

\* The position of node `id` in the depth-first order of a forest.
DepthFirstRank(nodes, id) ==
    CHOOSE k \in 1..Len(FlatNodes(nodes)) : IdOf(FlatNodes(nodes)[k]) = id

\* Record i is about a page as a whole.
IsPageRecord(i) == changes[i].property = "page" /\ origin[i].nodeId = ""

\* Record i reports an added node.
IsAddedNode(i) ==
    ~IsPageRecord(i) /\ changes[i].property = "node" /\ changes[i].kind = "ADDED"

\* Where the block of record i stands: the pages of the new document in its
\* order, then the removed pages in the old document's order.
BlockRank(i) ==
    IF IsPageRecord(i) /\ changes[i].kind = "REMOVED"
    THEN Len(newFile.pages) + PageRank(oldFile, origin[i].pageId)
    ELSE PageRank(newFile, origin[i].pageId)

\* Where record i stands in the block of its page: <<0, rank in the old
\* tree>> for a removed node or a property, <<1, rank in the new tree>> for
\* an added node.
NodeRank(i) ==
    IF IsPageRecord(i) THEN <<0, 0>>
    ELSE IF IsAddedNode(i)
    THEN <<1, DepthFirstRank(PageOf(newFile, origin[i].pageId).children,
                             origin[i].nodeId)>>
    ELSE <<0, DepthFirstRank(PageOf(oldFile, origin[i].pageId).children,
                             origin[i].nodeId)>>

\* Record i does not stand after record j.
NotAfter(i, j) ==
    \/ BlockRank(i) < BlockRank(j)
    \/ /\ BlockRank(i) = BlockRank(j)
       /\ \/ NodeRank(i)[1] < NodeRank(j)[1]
          \/ NodeRank(i)[1] = NodeRank(j)[1] /\ NodeRank(i)[2] <= NodeRank(j)[2]

\* C24. Output ordering of diff: the records of the pages of the new document
\* appear in the new document's page order (a page's node and property
\* records, or its single ADDED page record), and all REMOVED page records
\* follow them in old-document page order; within one page, every
\* REMOVED-node record and every property record (in old-tree depth-first
\* order of their nodes) precedes every ADDED-node record (in new-tree
\* depth-first order).
C24_RecordOrder ==
    (Done /\ ValidInputs) =>
      \A i \in 1..Len(changes) : \A j \in 1..Len(changes) :
        i < j => NotAfter(i, j)

\* The records of two pages of the new document, in an order that is not the
\* old document's, a removed node before an added node of one page, and a
\* removed page at the end.
C24_Witness ==
    /\ Done /\ ValidInputs
    /\ \E i, j \in 1..Len(changes) :
         /\ i < j
         /\ ~IsPageRecord(i) /\ ~IsPageRecord(j)
         /\ origin[i].pageId # origin[j].pageId
         /\ PageRank(oldFile, origin[i].pageId) > PageRank(oldFile, origin[j].pageId)
    /\ \E i, j \in 1..Len(changes) :
         /\ i < j
         /\ origin[i].pageId = origin[j].pageId
         /\ changes[i].property = "node" /\ changes[i].kind = "REMOVED"
         /\ IsAddedNode(j)
    /\ IsPageRecord(Len(changes)) /\ changes[Len(changes)].kind = "REMOVED"


(* ----------------------------- C26 -------------------------------------- *)

\* The positions in `runs` of the runs of processFile for a file key.
RunsOf(fileKey) == {i \in 1..Len(runs) : runs[i].file = fileKey}

\* A step in which a run of the file ends: returning after the baseline or
\* the unchanged snapshot, completing after the notification, or throwing.
RunEnds(fileKey) ==
    Cardinality({i \in 1..Len(runs') : runs'[i].file = fileKey})
        < Cardinality(RunsOf(fileKey))

\* C26: in the webhook server at most one run of processFile is past the
\* duplicate check for a file key at any time; a key is in `processing`
\* exactly while such a run is in flight; every step that ends the run,
\* by an early return, by completing or by a throw, takes the key out of the
\* set; and when every awaited call settles, a key that is in the set gets
\* out of it, so that a later event for the file starts a run again.
C26_InFlightExclusion ==
    /\ [](\A f \in TrackedKeys \cup {"fileX", ""} :
             /\ Cardinality(RunsOf(f)) <= 1
             /\ (f \in processing) <=> (RunsOf(f) # {}))
    /\ [][\A f \in TrackedKeys :
             /\ RunEnds(f) => f \in processing /\ f \notin processing'
             /\ (f \in processing /\ f \notin processing') => RunEnds(f)]_vars
    /\ \A f \in TrackedKeys : (f \in processing) ~> (f \notin processing)

\* An event for a file arrived after Figma had served the run in flight for
\* that file, and was dropped by the duplicate check.
C26_Witness ==
    \E i \in 1..Len(runs) :
        /\ runs[i].at = "getFile"
        /\ callsProcessFile(webhook.payload)
        /\ webhook.payload.file_key = runs[i].file
        /\ runs[i].figmaFile.version < webhook.payload.timestamp
        /\ runs[i].file \in processing


(* ----------------------------- C27 -------------------------------------- *)

\* The payload has another passcode than the server's, an event type other
\* than FILE_UPDATE, no file key, or a file key that is not tracked.
Rejected(payload) ==
    \/ payload.passcode # Passcode
    \/ payload.event_type # "FILE_UPDATE"
    \/ payload.file_key = ""
    \/ payload.file_key \notin TrackedKeys

\* C27: every POST /webhook is answered 200 "received"; a POST whose payload
\* has a wrong passcode, another event type, no file key or an untracked
\* file key starts no run of processFile, so that it causes no file fetch, no
\* snapshot write and no notification; the runs in flight, which are the only
\* ones to fetch, write and notify, are all for tracked files.
C27_Rejection ==
    /\ [](\A i \in 1..Len(runs) : runs[i].file \in TrackedKeys)
    /\ [][webhook'.posts # webhook.posts =>
             /\ webhook'.status = 200 /\ webhook'.body = "received"
             /\ Rejected(webhook'.payload) =>
                   /\ runs' = runs /\ processing' = processing
                   /\ store' = store /\ sent' = sent /\ remote' = remote]_vars

\* A request naming an untracked file has been answered while a run for a
\* tracked file was in flight, and has left that run as the only one.
C27_Witness ==
    /\ webhook.posts = 2
    /\ webhook.payload.file_key = "fileX"
    /\ webhook.status = 200 /\ webhook.body = "received"
    /\ Len(runs) = 1 /\ runs[1].at = "getFile"
    /\ processing = {runs[1].file}


(* ----------------------------- C25 -------------------------------------- *)

\* The last request was a FILE_UPDATE event with the configured passcode for
\* the tracked file, sent when Figma held version v of it.
EventFor(fileKey, v) ==
    /\ webhook.posts > 0
    /\ ~Rejected(webhook.payload)
    /\ webhook.payload.file_key = fileKey
    /\ webhook.payload.timestamp = v

\* A stored snapshot of the file holds version v of it or a later one.
Reflected(fileKey, v) ==
    \E k \in 1..Len(store.snapshots[fileKey]) :
        store.snapshots[fileKey][k].file.version >= v

\* C25: every FILE_UPDATE event that carries the configured passcode and the
\* key of a tracked file leads to a run of the pipeline for that file, so
\* that the version of the file the event was sent for, or a later one, is
\* eventually held by a stored snapshot.
C25_WebhookTrigger ==
    \A f \in TrackedKeys : \A v \in 1..(MaxEdits + 1) :
        EventFor(f, v) ~> Reflected(f, v)

\* What does hold: a run that is past the duplicate check and waits for its
\* delay brings the version Figma holds then, or a later one, into a stored
\* snapshot.
C25_StartedRunsReflect ==
    \A f \in TrackedKeys : \A v \in 1..(MaxEdits + 1) :
        ((\E i \in 1..Len(runs) : runs[i].file = f /\ runs[i].at = "delay")
            /\ remote[f].version = v)
        ~> Reflected(f, v)


(* ----------------------------- C28 -------------------------------------- *)

\* The n-th call of pollOnce is in flight.
Polling(n) == \E i \in 1..Len(runs) : runs[i].poll = n

\* Where it is.
PollOf(n) == runs[CHOOSE i \in 1..Len(runs) : runs[i].poll = n]

\* The n-th call of pollOnce is where processFile compares the versions of a
\* file, and the stored last version is the version Figma holds.
AtGate(n) ==
    /\ Polling(n)
    /\ PollOf(n).at = "getFileMetadata"
    /\ getLastVersion(store, PollOf(n).file) = remote[PollOf(n).file].version

\* The n-th call of pollOnce takes a step.
PollMoves(n) ==
    ~(\E j \in 1..Len(runs') : runs'[j] = PollOf(n))

\* C28: when the stored last version of a file equals the version Figma
\* holds, processFile of the poller asks for no full file, writes no snapshot
\* and sends no notification; and whenever processFile returns for a file of
\* which it read version v, the stored last version of the file is v right
\* after.
C28_VersionGate ==
    /\ [][\A n \in 1..MaxPolls :
             AtGate(n) /\ PollMoves(n) =>
                /\ store' = store /\ sent' = sent
                /\ ~(\E j \in 1..Len(runs') :
                        /\ runs'[j].poll = n
                        /\ runs'[j].next = PollOf(n).next
                        /\ runs'[j].at # "getFileMetadata")
                /\ poller'.returned.threw
                      \/ poller'.returned.at = "sameVersion"]_vars
    /\ [][poller'.calls # poller.calls /\ ~poller'.returned.threw =>
             /\ poller'.returned.version >= 1
             /\ getLastVersion(store', poller'.returned.file)
                   = poller'.returned.version]_vars

\* A later call of processFile has found the first file at the version
\* stored with its baseline and has returned at the version check.
C28_Witness ==
    /\ poller.calls >= 1
    /\ ~poller.returned.threw
    /\ poller.returned.at = "sameVersion"
    /\ poller.returned.file = fileKeys[1]
    /\ getLastVersion(store, fileKeys[1]) = remote[fileKeys[1]].version
    /\ Len(store.snapshots[fileKeys[1]]) = 1
    /\ sent = <<>>


(* ----------------------------- C29 -------------------------------------- *)

\* The file has exactly one snapshot, which holds the file as fetched.
BaselineOf(st, fileKey, file) ==
    /\ Len(st.snapshots[fileKey]) = 1
    /\ st.snapshots[fileKey][1].file = file

\* In this step the response with the full file reaches a run of the webhook
\* server for a file that has no snapshot.
WebhookFirstScan(i) ==
    /\ WebhookRuns
    /\ runs[i].at = "getFile"
    /\ store.snapshots[runs[i].file] = <<>>
    /\ ~(\E j \in 1..Len(runs') : runs'[j] = runs[i])
    /\ ~GetFileThrows

\* In this step a call of processFile of the poller returns for a file that
\* had no snapshot.
PollerFirstScan ==
    /\ poller'.calls # poller.calls
    /\ ~poller'.returned.threw
    /\ store.snapshots[poller'.returned.file] = <<>>

\* In this step a changelog is put out.
Notifies == sent' # sent

\* The run that puts it out.
Notifying(i) ==
    /\ runs[i].at = "send" /\ runs'[i].at = "sent"
    /\ sent' = Append(sent, sent'[Len(sent')])
    /\ sent'[Len(sent')].file = runs[i].file

\* C29: when a file has no snapshot, processing it, in the poller and in the
\* webhook server, saves the fetched file as its snapshot, sends no
\* notification and reports no changes; a notification is sent only by a run
\* that found a previous snapshot and a non-empty diff of the fetched file
\* against it.
C29_FirstScanBaseline ==
    /\ [][\A i \in 1..Len(runs) : WebhookFirstScan(i) =>
             /\ BaselineOf(store', runs[i].file, runs[i].figmaFile)
             /\ sent' = sent
             /\ Len(runs') = Len(runs) - 1]_vars
    /\ [][PollerFirstScan =>
             /\ BaselineOf(store', poller'.returned.file,
                           remote[poller'.returned.file])
             /\ sent' = sent
             /\ poller'.returned.at = "firstScan"
             /\ ~poller'.returned.hasChanges
             /\ poller'.returned.changeCount = 0]_vars
    /\ [][Notifies =>
             \E i \in 1..Len(runs) :
                /\ Notifying(i)
                /\ runs[i].prevSnapshot # Undefined
                /\ diffSnapshots(CanonicalDocs[runs[i].prevSnapshot.doc],
                                 CanonicalDocs[runs[i].figmaFile.doc]) # <<>>]_vars

\* The poller has saved the baselines of both files without a notification
\* and, after an edit of the first file, has sent one for it.
C29_Witness ==
    /\ poller.calls >= 3
    /\ ~poller.returned.threw
    /\ poller.returned.at = "changes"
    /\ poller.returned.file = fileKeys[1]
    /\ Len(sent) = 1 /\ sent[1].file = fileKeys[1]
    /\ Len(store.snapshots[fileKeys[1]]) = 2
    /\ Len(store.snapshots[fileKeys[2]]) = 1


(* ----------------------------- C30 -------------------------------------- *)

\* The i-th run in flight takes this step.
RunMoves(i) == ~(\E j \in 1..Len(runs') : runs'[j] = runs[i])

\* The run found a non-empty diff against the previous snapshot.
FoundChanges(run) == run.changeCount > 0

\* The LLM call of the run failed, or its delivery to Mattermost did.
FailedOnTheWay(run) ==
    run.changelog = "fallback" \/ run.attempt > MaxRetries

\* The store holds the file the run fetched as the latest snapshot of the
\* file, so that a run fetching the same file finds no change.
Persisted(st, run) ==
    /\ getLatestSnapshot(st, run.file) # Undefined
    /\ getLatestSnapshot(st, run.file).file = run.figmaFile
    /\ getLastVersion(st, run.file) = getLatestSnapshot(st, run.file).version
    /\ diffSnapshots(CanonicalDocs[getLatestSnapshot(st, run.file).file.doc],
                     CanonicalDocs[run.figmaFile.doc]) = <<>>

\* A run that found changes writes the store only in the step after
\* notifier.send has returned, when its changelog has been put out.
WritesAfterSend ==
    /\ [][store' # store => \E i \in 1..Len(runs) : RunMoves(i)]_vars
    /\ [][\A i \in 1..Len(runs) :
             FoundChanges(runs[i]) /\ RunMoves(i) /\ store' # store =>
                /\ runs[i].at = "sent"
                /\ \E k \in 1..Len(sent) : sent[k].file = runs[i].file]_vars

NotificationsFor(f) == Cardinality({k \in 1..Len(sent) : sent[k].file = f})

\* How many versions of a file Figma has held after the scanned version 1.
NewVersionsOf(f) == remote[f].version - 1

\* C31: in continuous polling mode each new remote version of a tracked file
\* produces at most one notification, also when a poll starts while the
\* previous one is still going on: on files scanned at version 1, no file
\* ever has more notifications than it has had new versions.
C31_OneNotificationPerVersion ==
    \A f \in TrackedKeys : NotificationsFor(f) <= NewVersionsOf(f)

(* ------------------------------- C32 ----------------------------------- *)

\* The n-th call of pollOnce is among the calls rs.
PollingIn(rs, n) == \E i \in 1..Len(rs) : rs[i].poll = n

\* Where it is among them.
PollAmong(rs, n) == rs[CHOOSE i \in 1..Len(rs) : rs[i].poll = n]

\* processFile of the n-th call of pollOnce ends in this step, by one of
\* its return statements or by a throw.
ProcessFileEnds(n) ==
    Polling(n) /\ PollMoves(n) /\ poller'.calls = poller.calls + 1

\* How many files the first i of the calls rs are through with.
RECURSIVE FilesDone(_, _)
FilesDone(rs, i) ==
    IF i = 0 THEN 0 ELSE (rs[i].next - 1) + FilesDone(rs, i - 1)

\* C32: pollOnce processes every configured file key exactly once, in the
\* configured order, and an error while processing one file neither keeps
\* the remaining files from being processed nor makes pollOnce fail: a call
\* of pollOnce starts with the first key; it stays with a key until
\* processFile ends for it; when processFile ends, by a return or a throw,
\* the call is on the next key, or over after the last one; and every call
\* that is over has ended processFile once for each key.
C32_PollIsolation ==
    /\ [](\A i \in 1..Len(runs) :
             /\ runs[i].poll \in 1..poller.polls
             /\ runs[i].next \in 1..Len(fileKeys)
             /\ runs[i].file = fileKeys[runs[i].next]
             /\ \A j \in 1..Len(runs) : runs[j].poll = runs[i].poll => j = i)
    /\ [](poller.calls = (poller.polls - Len(runs)) * Len(fileKeys)
                            + FilesDone(runs, Len(runs)))
    /\ [][\A n \in 1..MaxPolls :
             ~Polling(n) /\ PollingIn(runs', n) =>
                PollAmong(runs', n) = PollRun(n, 1)]_vars
    /\ [][\A n \in 1..MaxPolls :
             Polling(n) /\ ~ProcessFileEnds(n) =>
                /\ PollingIn(runs', n)
                /\ PollAmong(runs', n).next = PollOf(n).next]_vars
    /\ [][\A n \in 1..MaxPolls :
             ProcessFileEnds(n) =>
                IF PollOf(n).next < Len(fileKeys)
                THEN /\ PollingIn(runs', n)
                     /\ PollAmong(runs', n) = PollRun(n, PollOf(n).next + 1)
                ELSE ~PollingIn(runs', n)]_vars

\* processFile has thrown for the first file, and the call of pollOnce is
\* processing the second one.
C32_Witness ==
    /\ poller.calls = 1
    /\ poller.returned.threw
    /\ poller.returned.file = fileKeys[1]
    /\ Polling(1)
    /\ PollOf(1) = PollRun(1, 2)

(* ------------------------------- C33 ----------------------------------- *)

\* A changelog that is empty or has only whitespace in it.
Blank(changelog) ==
    \A k \in 1..Len(changelog) : changelog[k] \in Whitespace

\* send was called for the file name.
Called(f) == \E i \in 1..Len(runs) : runs[i].file = f

\* The call of send for the file name has returned.
Returned(f) ==
    \E i \in 1..Len(runs) : runs[i].file = f /\ runs[i].at = "sent"

\* The one output of the changelog of a call went there.
OutputTo(call, to) ==
    /\ NotificationsFor(call.file) = 1
    /\ \E k \in 1..Len(sent) : sent[k] = [file |-> call.file, to |-> to]

\* C33: Notifier.send does nothing for an empty or blank changelog; in
\* mattermost mode it makes at most MaxRetries POST attempts, one after the
\* other, stops at the first one that succeeds, and after MaxRetries failed
\* ones prints the changelog to the terminal; so every changelog that is
\* not blank is put out exactly once, to Mattermost or to the terminal, by
\* the time send returns and never again, and every call of send returns.
C33_NotifierDelivery ==
    /\ [](\A i \in 1..Len(runs) :
             LET call == runs[i]
             IN /\ Blank(call.changelog) =>
                     /\ call.at = "sent" /\ call.attempt = 0
                     /\ NotificationsFor(call.file) = 0
                /\ call.at = "send" =>
                     /\ call.mode = "mattermost"
                     /\ call.attempt \in 1..MaxRetries
                     /\ NotificationsFor(call.file) = 0
                /\ call.at = "sent" /\ ~Blank(call.changelog) =>
                     IF call.mode = "terminal"
                     THEN call.attempt = 0 /\ OutputTo(call, "terminal")
                     ELSE \/ /\ call.attempt \in 1..MaxRetries
                             /\ OutputTo(call, "mattermost")
                          \/ /\ call.attempt = MaxRetries + 1
                             /\ OutputTo(call, "terminal"))
    /\ [][\A i \in 1..Len(runs) :
             /\ runs[i].at = "sent" => runs'[i] = runs[i]
             /\ runs[i].at = "send" /\ runs'[i] # runs[i] =>
                  \/ /\ runs'[i] = [runs[i] EXCEPT !.at = "sent"]
                     /\ sent' = Append(sent, [file |-> runs[i].file,
                                              to |-> "mattermost"])
                  \/ /\ runs[i].attempt < MaxRetries
                     /\ runs'[i] = [runs[i] EXCEPT !.attempt = @ + 1]
                     /\ sent' = sent
                  \/ /\ runs[i].attempt = MaxRetries
                     /\ runs'[i] = [runs[i] EXCEPT !.at = "sent",
                                                   !.attempt = @ + 1]
                     /\ sent' = Append(sent, [file |-> runs[i].file,
                                              to |-> "terminal"])]_vars
    /\ \A f \in TrackedKeys : Called(f) ~> Returned(f)

\* send has returned from two calls: one with a changelog of whitespace,
\* for which nothing was put out, and one in mattermost mode of which every
\* POST failed and the changelog was printed to the terminal.
C33_Witness ==
    /\ Len(runs) = 2
    /\ runs[1].changelog = <<"\n", " ">> /\ runs[1].at = "sent"
    /\ runs[2].changelog = <<"a", " ", "b">> /\ runs[2].mode = "mattermost"
    /\ runs[2].at = "sent" /\ runs[2].attempt = MaxRetries + 1
    /\ sent = <<[file |-> runs[2].file, to |-> "terminal"]>>

(* ------------------------------- C34 ----------------------------------- *)

\* The rows of a file are of different versions.
OnePerVersion(st, fileKey) ==
    \A i, j \in 1..Len(st.snapshots[fileKey]) :
       st.snapshots[fileKey][i].version = st.snapshots[fileKey][j].version
          => i = j

\* The last `count` rows of a list, or all of it: the rows created last.
CreatedLast(rows, count) ==
    IF Len(rows) <= count THEN rows
    ELSE SubSeq(rows, Len(rows) - count + 1, Len(rows))

\* What cleanOldSnapshots leaves of a file is at most keepCount rows, none
\* of them of an earlier second than a row it deletes; it leaves the other
\* files alone, and getLatestSnapshot returns the same row after it.
CleansByCreatedAt(st, fileKey, keepCount) ==
    LET after == cleanOldSnapshots(st, fileKey, keepCount)
        rows == st.snapshots[fileKey]
        left == after.snapshots[fileKey]
    IN /\ Len(left) <= keepCount
       /\ Len(left) = IF Len(rows) <= keepCount THEN Len(rows) ELSE keepCount
       /\ \A i \in 1..Len(left) :
             /\ \E j \in 1..Len(rows) : rows[j] = left[i]
             /\ \A j \in 1..Len(rows) :
                   (\A k \in 1..Len(left) : left[k] # rows[j])
                      => rows[j].createdAt <= left[i].createdAt
       /\ \A other \in TrackedKeys \ {fileKey} :
             after.snapshots[other] = st.snapshots[other]
       /\ after.tracked = st.tracked
       /\ getLatestSnapshot(after, fileKey) = getLatestSnapshot(st, fileKey)

\* C34: the store holds at most one snapshot of a file and a version, a save
\* of the same pair replacing the row; after cleanOldSnapshots(fileKey, k)
\* at most k snapshots of the file remain, and they are the k created last;
\* the snapshots of the other files are unchanged, and getLatestSnapshot of
\* the file returns the same snapshot as before the cleanup.
C34_Retention ==
    \A fileKey \in TrackedKeys :
       /\ OnePerVersion(store, fileKey)
       /\ \A keepCount \in 1..MaxVersions :
             /\ CleansByCreatedAt(store, fileKey, keepCount)
             /\ cleanOldSnapshots(store, fileKey, keepCount).snapshots[fileKey]
                   = CreatedLast(store.snapshots[fileKey], keepCount)

\* What holds of the store in place of C34: the rows cleanOldSnapshots
\* leaves are the newest by created_at, a second at a time.
C34_RetentionBySecond ==
    \A fileKey \in TrackedKeys :
       /\ OnePerVersion(store, fileKey)
       /\ \A keepCount \in 1..MaxVersions :
             CleansByCreatedAt(store, fileKey, keepCount)

(* ------------------------------- C35 ----------------------------------- *)

RECURSIVE HoldsUndefined(_)
\* Some object inside the value has a key whose value is undefined.
HoldsUndefined(val) ==
    CASE val.t = "array" -> \E i \in 1..Len(val.v) : HoldsUndefined(val.v[i])
      [] val.t = "object" ->
           \E i \in 1..Len(val.v) :
              val.v[i][2].t = "undefined" \/ HoldsUndefined(val.v[i][2])
      [] OTHER -> FALSE

\* The second fetch of the unchanged raw document has been processed.
ProcessedUnchanged == pc = "done"

\* C35: when the raw document is the same at two fetches, the diff of the
\* stored previous snapshot (the canonical document serialized to JSON and
\* parsed) against the fresh canonical document has no change records,
\* whatever the raw document holds.
C35_PersistedNoOp == ProcessedUnchanged => changes = <<>>

\* What the code does instead: the diff has records exactly when the fresh
\* canonical document holds a key with the value undefined (the imageRef or
\* scaleMode of an image paint, the pos of a gradient stop), which the
\* stored copy has lost.
C35_NoOpUnlessUndefined ==
    ProcessedUnchanged =>
        /\ newFile = filterFile(RawResponse(rawNode))
        /\ (changes = <<>>) <=>
              \A p \in 1..Len(newFile.pages) :
                 \A k \in 1..Len(newFile.pages[p].children) :
                    ~HoldsUndefined(newFile.pages[p].children[k])
        /\ \A c \in 1..Len(changes) :
              /\ changes[c].kind = "MODIFIED"
              /\ changes[c].property \in {"fills", "strokes"}

\* An unchanged document whose image paint has no reference gives a record.
C35_Witness ==
    /\ ProcessedUnchanged
    /\ Len(changes) = 1
    /\ changes[1].property = "fills"

(* ------------------------------- C36 ----------------------------------- *)

\* The records emitted for the page with this id.
RecsOfPage(pid) == {i \in Recs : origin[i].pageId = pid}

\* The page keeps its id and its nodes; its name may differ.
OnlyNameMayDiffer(pid) ==
    PageOf(oldFile, pid).children = PageOf(newFile, pid).children

\* The page has another name in the new document.
Renamed(pid) == PageOf(oldFile, pid).name # PageOf(newFile, pid).name

\* The page name the records of a page carry.
PageNameFor(pid) ==
    IF PageOf(newFile, pid).name = "" THEN PageOf(oldFile, pid).name
    ELSE PageOf(newFile, pid).name

\* C36: a page that keeps its id and changes only its name gives no change
\* record; every record emitted for a node of a page both documents have
\* carries as `page` the page's name in the new document, or its name in the
\* old document when the new name is empty.
C36_PageRename ==
    Done =>
        /\ \A pid \in SharedPages :
              /\ OnlyNameMayDiffer(pid) => RecsOfPage(pid) = {}
              /\ \A i \in RecsOfPage(pid) :
                    /\ origin[i].nodeId # ""
                    /\ changes[i].property # "page"
                    /\ changes[i].page = PageNameFor(pid)
        /\ \A i \in Recs :
              origin[i].nodeId # "" => origin[i].pageId \in SharedPages

\* A renamed page one of whose nodes changed: the only records are the
\* node's, under the new page name.
C36_Witness ==
    /\ Done
    /\ \E pid \in SharedPages :
         /\ Renamed(pid)
         /\ PageOf(newFile, pid).name # ""
         /\ RecsOfPage(pid) = Recs
         /\ Recs # {}
         /\ \A i \in Recs : changes[i].page = PageOf(newFile, pid).name

\* A page renamed and nothing else: an empty list.
C36_RenameOnly ==
    /\ Done
    /\ changes = <<>>
    /\ \E pid \in SharedPages : Renamed(pid)

\* A page whose new name is empty: its records carry the old name.
C36_EmptyName ==
    /\ Done
    /\ \E pid \in SharedPages :
         /\ PageOf(newFile, pid).name = ""
         /\ PageOf(oldFile, pid).name # ""
         /\ \E i \in RecsOfPage(pid) : changes[i].page = PageOf(oldFile, pid).name

====
